---- MODULE Spec2Model ----
(***************************************************************************)
(* Basejump: rebase-on-demand GitHub App.                                  *)
(*                                                                         *)
(* The model covers the issue_comment.created handler (src/src/index.ts),  *)
(* the verification classifier and token helper (src/src/github.ts), the   *)
(* local rebase operation run/doRebase/forcePushWithLease                  *)
(* (src/src/rebase.ts) and the error taxonomy (src/src/errors.ts).         *)
(* Every await of the code is one step; each external call (host API, git, *)
(* file system) either returns or throws, chosen nondeterministically.     *)
(* Other actors push to the remote repository concurrently.                *)
(***************************************************************************)
EXTENDS Integers, Sequences, FiniteSets, TLC

\* ------------------------------------------------------------------ bounds
\* Largest number of commits a pull request holds in the model.
MaxCommits == 3
\* Number of commits on the base branch; the feature branch forks from any
\* of them, so it is behind by 0 to MaxBase - 1 commits.
MaxBase == 2
\* Number of pushes other actors make during one behaviour.
MaxActorPushes == 1
\* Page size of the list-commits endpoint, scaled down (the host's default
\* is 30 records per response; the handler asks for one response only).
PerPage == 2
\* Longest commit list given to the verification classifier on its own.
MaxLen == 3

\* --------------------------------------------------------------- constants
\* Length of a commit SHA as matched by forcePushWithLease ([a-f0-9]{40}).
ShaLen == 40
\* Number of SHA characters named in the conflict comment (substring(0, 7)).
ShortShaLen == 7

Reqs == {1, 2}
WorkDirs == {"basejump-a", "basejump-b"}
NoDir == "none"

Min(a, b) == IF a < b THEN a ELSE b

HexDigits == <<"0", "1", "2", "3", "4", "5", "6", "7",
               "8", "9", "a", "b", "c", "d", "e", "f">>

\* The 40-character SHA of the commit with identity id.
Sha(id) == [i \in 1..ShaLen |-> HexDigits[((id * (i + 2)) % 16) + 1]]

\* String.prototype.substring(from, to) on a string held as a sequence
\* (zero-based from, exclusive to, clamped to the string's length).
Substring(s, from, to) == SubSeq(s, Min(from, Len(s)) + 1, Min(to, Len(s)))

\* ------------------------------------------------- commits and remote refs
Valid == [verified |-> TRUE, reason |-> "valid"]
Unsigned == [verified |-> FALSE, reason |-> "unsigned"]
\* Verification records the host reports for ordinary commits.
HostVerifications == {Valid, Unsigned}
\* Every shape of commit.verification the classifier distinguishes; "absent"
\* stands for a commit object without a verification member.
Absent == [verified |-> FALSE, reason |-> "absent"]
AllVerifications ==
    {Valid, Unsigned, Absent,
     [verified |-> TRUE, reason |-> "unsigned"],
     [verified |-> FALSE, reason |-> "valid"]}

\* A commit: its identity and the verification record the host keeps for it.
Commit(id, v) == [id |-> id, verification |-> v]

\* A feature branch value: the number of base commits it contains (fork) and
\* its own commits on top of them.  Two values are the same ref iff equal.
Branch(fork, commits) == [fork |-> fork, commits |-> commits]

SeqsUpTo(S, n) == UNION {[1..k -> S] : k \in 0..n}

InitialCommitLists ==
    {cs \in SeqsUpTo({Commit(i, v) : i \in 1..MaxCommits, v \in HostVerifications},
                     MaxCommits) :
        /\ Len(cs) >= 1
        /\ \A i \in 1..Len(cs) : cs[i].id = i}

NoBranch == Branch(0, <<>>)
NoError == [kind |-> "none", commitSha |-> <<>>]
HttpError == [kind |-> "http", commitSha |-> <<>>]
OtherError == [kind |-> "other", commitSha |-> <<>>]
RemoteChangedError == [kind |-> "remoteChanged", commitSha |-> <<>>]
CodeConflictError(sha) == [kind |-> "conflict", commitSha |-> sha]

VARIABLES
    pc,             \* position of each request's handler
    body,           \* payload: does comment.body start with "/rebase"
    isPR,           \* payload: is issue.pull_request set
    eyesReactionId, \* index.ts:62, 0 stands for undefined
    err,            \* the error in flight in the handler or in run
    behindBy,       \* behind_by as returned by the comparison
    shouldSign,     \* shouldSignDuringRebase
    gitConfig,      \* gitConfig handed to run
    workingDir,     \* run's workingDir
    lease,          \* origin/<featBranch> in the clone
    localBase,      \* base branch length in the clone
    localFeat,      \* local <featBranch> in the clone
    wasRebased,     \* run's wasRebased
    rebaseHead,     \* REBASE_HEAD in the clone, 0 when there is none
    stoppedAt,      \* position of the commit git stopped at, 0 when none
    trace,          \* every external call a request made, in order
    lookedUp,       \* pull request commits at the time of the lookup
    uncaught,       \* the handler's promise rejected
    durationLogged, \* 'Completed in ..ms' was logged
    reactions,      \* reactions of the bot on each triggering comment
    reactionLog,    \* reactions created on each triggering comment, in order
    prComments,     \* comments the bot created on the pull request
    remoteFeat,     \* remote feature branch ref
    remoteBase,     \* remote base branch ref (number of commits)
    fs,             \* temporary directories that exist
    actorPushes,    \* pushes made by other actors so far
    envKeyId,       \* process.env.KEY_ID, "" when unset
    now,            \* the clock, in seconds: the committer date git gives
    vcommits,       \* classifier on its own: the commit list
    vresult,        \* classifier on its own: its result
    apiPc,          \* host-API rebase: position of rebase()
    pr,             \* host-API rebase: the pull request object handed in
    pullCommits,    \* host-API rebase: the commits of the pull request
    refs,           \* host-API rebase: the branch refs of the repository
    objects,        \* host-API rebase: the commits made by createCommit
    baseCommit,     \* rebase's baseCommit
    listed,         \* rebase's commits, as listCommits returned them
    currentSha,     \* rebase's currentSha
    currentTree,    \* rebase's currentTree
    pickIdx,        \* position of the loop over the listed commits
    pick,           \* locals of cherryPickCommit
    apiErr,         \* host-API rebase: the exception in flight or thrown
    raised          \* host-API rebase: the exception the try block raised

reqVars == <<pc, body, isPR, eyesReactionId, err, behindBy, shouldSign,
             gitConfig, workingDir, lease, localBase, localFeat, wasRebased,
             rebaseHead, stoppedAt, trace, lookedUp, uncaught,
             durationLogged>>
hostVars == <<reactions, reactionLog, prComments>>
remoteVars == <<remoteFeat, remoteBase, actorPushes>>
classifierVars == <<vcommits, vresult>>
hostApiVars == <<apiPc, pr, pullCommits, refs, objects, baseCommit, listed,
                 currentSha, currentTree, pickIdx, pick, apiErr, raised>>
vars == <<reqVars, hostVars, remoteVars, fs, envKeyId, now, classifierVars,
          hostApiVars>>


\* ------------------------------------------------------- src/src/errors.ts
isHttpError(error) == error.kind = "http"

\* Variant: every error is taken for a code conflict.
isAnyError(error) == error.kind # "none"

isCodeConflictError(error) ==
    error.kind = "conflict" /\ error.commitSha \in Seq(STRING)

\* ------------------------------------------------------- src/src/github.ts
\* One response of the list-commits endpoint for a pull request whose
\* commits are prCommits: the first page, since the call names no page.
ListCommitsResponse(prCommits) ==
    SubSeq(prCommits, 1, Min(PerPage, Len(prCommits)))

\* Variant: the reason code is not looked at.
IsVerifiedIgnoringReason(commit) == commit.verification.verified

\* The test of the classifier's loop body (github.ts:83-86).
IsVerifiedValid(commit) ==
    commit.verification.verified /\ commit.verification.reason = "valid"

RECURSIVE UnverifiedCommits(_)
UnverifiedCommits(commits) ==
    IF commits = <<>> THEN <<>>
    ELSE (IF IsVerifiedValid(Head(commits)) THEN <<>> ELSE <<Head(commits)>>)
         \o UnverifiedCommits(Tail(commits))

\* Variant: a failed lookup counts as verified.
LookupFailureResultOpen == TRUE

\* What the catch block of areCommitsVerified returns.
LookupFailureResult == FALSE

areCommitsVerified(prCommits, lookupOk) ==
    IF lookupOk
    THEN Len(UnverifiedCommits(ListCommitsResponse(prCommits))) = 0
    ELSE LookupFailureResult

\* Variant: whatever the auth call returned is taken for a token.
getInstallationTokenUnchecked(authResult) == "test-token"

\* getInstallationToken: the token string, or "" for null.
getInstallationToken(authResult) ==
    IF authResult = "token object" THEN "test-token" ELSE ""

\* -------------------------------------------------------- src/src/index.ts
Directive(key, val) == [key |-> key, val |-> val]
CommitterName == "GIT_COMMITTER_NAME"
CommitterEmail == "GIT_COMMITTER_EMAIL"

\* Variant: the signing key is named whenever one is configured.
BuildGitConfigKeyAlways(sign, keyId) ==
    << Directive("user.name", CommitterName),
       Directive("user.email", CommitterEmail),
       Directive("committer.name", CommitterName),
       Directive("committer.email", CommitterEmail) >>
    \o (IF sign /\ keyId # ""
        THEN << Directive("commit.gpgsign", "true") >>
        ELSE << Directive("commit.gpgsign", "false") >>)
    \o (IF keyId # "" THEN << Directive("user.signingkey", keyId) >>
        ELSE << >>)

\* gitConfig as built at index.ts:127-140.
BuildGitConfig(sign, keyId) ==
    << Directive("user.name", CommitterName),
       Directive("user.email", CommitterEmail),
       Directive("committer.name", CommitterName),
       Directive("committer.email", CommitterEmail) >>
    \o (IF sign /\ keyId # ""
        THEN << Directive("commit.gpgsign", "true"),
                Directive("user.signingkey", keyId) >>
        ELSE << Directive("commit.gpgsign", "false") >>)

HasDirective(config, key, val) ==
    \E i \in 1..Len(config) : config[i] = Directive(key, val)
HasKey(config, key) ==
    \E i \in 1..Len(config) : config[i].key = key

\* Variant: the comment names the whole SHA.
ConflictCommentBodyFullSha(commitSha) ==
    [lead |-> "Failed to rebase: Conflict detected when applying commit ",
     short |-> commitSha,
     stop |-> ".",
     sep |-> "\n\n",
     ask |-> "Please resolve the conflict and push again."]

\* The comment body created on a code conflict (index.ts:151-159).
ConflictCommentBody(commitSha) ==
    [lead |-> "Failed to rebase: Conflict detected when applying commit ",
     short |-> Substring(commitSha, 0, ShortShaLen),
     stop |-> ".",
     sep |-> "\n\n",
     ask |-> "Please resolve the conflict and push again."]

\* Variant: the necessity check never holds.
NotNeededNever(behind_by) == behind_by < 0

\* The test of the necessity check (index.ts:90).
NotNeeded(behind_by) == behind_by = 0

\* Variant: the host numbers reactions from zero.
ReactionIdZero(r) == 0

\* The id the host gives the eyes reaction of request r.
ReactionId(r) == 100 + r

\* --------------------------------------------------------------- helpers
Trace(r, op, arg, ok) ==
    trace' = [trace EXCEPT ![r] = Append(@, [op |-> op, arg |-> arg, ok |-> ok])]

Goto(r, label) == pc' = [pc EXCEPT ![r] = label]

\* Variant: the catch block only records the error.
ThrowLogOnly(r, e) ==
    /\ err' = [err EXCEPT ![r] = e]
    /\ Goto(r, "finally")

\* Variant: a remote-changed failure starts the rebase operation again.
ThrowRetrying(r, e) ==
    /\ err' = [err EXCEPT ![r] = IF e.kind = "remoteChanged" THEN NoError ELSE e]
    /\ Goto(r, IF e.kind = "remoteChanged" THEN "mkdtemp"
               ELSE IF isCodeConflictError(e) THEN "createComment"
               ELSE "confusedFail")

\* An exception leaves the try block of the handler: control continues in
\* the catch block up to its first await (index.ts:147-176).
Throw(r, e) ==
    /\ err' = [err EXCEPT ![r] = e]
    /\ Goto(r, IF isCodeConflictError(e) THEN "createComment" ELSE "confusedFail")

\* createIssueCommentReaction (github.ts:41-58) as called by request r.
createIssueCommentReaction(r, content, ok) ==
    /\ Trace(r, "createReaction", content, ok)
    /\ IF ok
       THEN /\ reactions' = [reactions EXCEPT ![r] = @ \cup {content}]
            /\ reactionLog' = [reactionLog EXCEPT ![r] = Append(@, content)]
       ELSE UNCHANGED <<reactions, reactionLog>>

runVars == <<workingDir, lease, localBase, localFeat, wasRebased, rebaseHead,
             stoppedAt>>
payloadVars == <<body, isPR>>


\* ------------------------------------- the host-API rebase: its values
NoRef == 0
NoTree == [base |-> 0, picked |-> <<>>]
NoApiError == [kind |-> "none", call |-> "", commitSha |-> 0]
NoPick == [parents |-> <<>>, siblingCommit |-> 0, tree |-> NoTree]
NoBaseCommit == [sha |-> 0, tree |-> NoTree]
NoPR == [number |-> 0, base |-> [ref |-> "main", sha |-> 0],
         head |-> [ref |-> "feature"]]

\* The host-API rebase is not run.
HostApiOff ==
    /\ apiPc = "off"
    /\ pr = NoPR
    /\ pullCommits = <<>>
    /\ refs = [main |-> NoRef, feature |-> NoRef, temp |-> NoRef]
    /\ objects = <<>>
    /\ baseCommit = NoBaseCommit
    /\ listed = <<>>
    /\ currentSha = 0
    /\ currentTree = NoTree
    /\ pickIdx = 0
    /\ pick = NoPick
    /\ apiErr = NoApiError
    /\ raised = NoApiError

\* ------------------------------------------------------------------- Init
\* The state before any event is delivered; active is the set of requests
\* that will be delivered.
InitWith(active, bases, commitLists, keyIds) ==
    /\ pc = [r \in Reqs |-> IF r \in active THEN "idle" ELSE "off"]
    /\ body \in [Reqs -> BOOLEAN]
    /\ isPR \in [Reqs -> BOOLEAN]
    /\ \A r \in Reqs \ active : body[r] /\ isPR[r]
    /\ eyesReactionId = [r \in Reqs |-> 0]
    /\ err = [r \in Reqs |-> NoError]
    /\ behindBy = [r \in Reqs |-> 0]
    /\ shouldSign = [r \in Reqs |-> FALSE]
    /\ gitConfig = [r \in Reqs |-> <<>>]
    /\ workingDir = [r \in Reqs |-> NoDir]
    /\ lease = [r \in Reqs |-> NoBranch]
    /\ localBase = [r \in Reqs |-> 0]
    /\ localFeat = [r \in Reqs |-> NoBranch]
    /\ wasRebased = [r \in Reqs |-> FALSE]
    /\ rebaseHead = [r \in Reqs |-> 0]
    /\ stoppedAt = [r \in Reqs |-> 0]
    /\ trace = [r \in Reqs |-> <<>>]
    /\ lookedUp = [r \in Reqs |-> <<>>]
    /\ uncaught = [r \in Reqs |-> FALSE]
    /\ durationLogged = [r \in Reqs |-> FALSE]
    /\ reactions = [r \in Reqs |-> {}]
    /\ reactionLog = [r \in Reqs |-> <<>>]
    /\ prComments = <<>>
    /\ remoteBase \in bases
    /\ \E fork \in 1..remoteBase, cs \in commitLists :
          remoteFeat = Branch(fork, cs)
    /\ fs = {}
    /\ actorPushes = 0
    /\ envKeyId \in keyIds
    /\ now = 0
    /\ vresult = [done |-> FALSE, lookupOk |-> FALSE, value |-> FALSE]

\* One request is delivered.
Init ==
    /\ HostApiOff
    /\ InitWith({1}, {MaxBase}, InitialCommitLists, {"", "deadbeef"})
    /\ vcommits = <<>>

\* ------------------------------------------- the handler, src/src/index.ts
\* Variant: an event is ignored only when both tests fail.
IgnoredWhenBoth(startsWithRebase, isPullRequest) ==
    ~startsWithRebase /\ ~isPullRequest

\* index.ts:48: the events the handler returns from at once.
Ignored(startsWithRebase, isPullRequest) ==
    ~startsWithRebase \/ ~isPullRequest

\* index.ts:42-60: the trigger filter.
Receive(r) ==
    /\ pc[r] = "idle"
    /\ IF Ignored(body[r], isPR[r])
       THEN Goto(r, "ignored")
       ELSE Goto(r, "createEyes")
    /\ UNCHANGED <<payloadVars, eyesReactionId, err, behindBy, shouldSign,
                   gitConfig, runVars, trace, lookedUp, uncaught,
                   durationLogged, hostVars, remoteVars, fs, envKeyId, now,
                   classifierVars,
                   hostApiVars>>

\* index.ts:66-72.
CreateEyes(r) ==
    /\ pc[r] = "createEyes"
    /\ \E ok \in BOOLEAN :
          /\ createIssueCommentReaction(r, "eyes", ok)
          /\ IF ok
             THEN /\ eyesReactionId' = [eyesReactionId EXCEPT ![r] = ReactionId(r)]
                  /\ Goto(r, "getPR")
                  /\ UNCHANGED err
             ELSE /\ Throw(r, HttpError)
                  /\ UNCHANGED eyesReactionId
    /\ UNCHANGED <<payloadVars, behindBy, shouldSign, gitConfig, runVars,
                   lookedUp, uncaught, durationLogged, prComments,
                   remoteVars, fs, envKeyId, now, classifierVars,
                   hostApiVars>>

\* index.ts:77-80.
GetPR(r) ==
    /\ pc[r] = "getPR"
    /\ \E ok \in BOOLEAN :
          /\ Trace(r, "pulls.get", "", ok)
          /\ IF ok
             THEN Goto(r, "compare") /\ UNCHANGED err
             ELSE Throw(r, HttpError)
    /\ UNCHANGED <<payloadVars, eyesReactionId, behindBy, shouldSign,
                   gitConfig, runVars, lookedUp, uncaught, durationLogged,
                   hostVars, remoteVars, fs, envKeyId, now, classifierVars,
                   hostApiVars>>

\* index.ts:82-96: the comparison and the necessity check.
Compare(r) ==
    /\ pc[r] = "compare"
    /\ \E ok \in BOOLEAN :
          /\ Trace(r, "compareCommitsWithBasehead", "", ok)
          /\ IF ok
             THEN LET behind_by == remoteBase - remoteFeat.fork IN
                  /\ behindBy' = [behindBy EXCEPT ![r] = behind_by]
                  /\ Goto(r, IF NotNeeded(behind_by)
                             THEN "confusedNotNeeded" ELSE "getToken")
                  /\ UNCHANGED err
             ELSE Throw(r, HttpError) /\ UNCHANGED behindBy
    /\ UNCHANGED <<payloadVars, eyesReactionId, shouldSign, gitConfig,
                   runVars, lookedUp, uncaught, durationLogged, hostVars,
                   remoteVars, fs, envKeyId, now, classifierVars,
                   hostApiVars>>

\* index.ts:92-93: the no-op marker, then return.
ConfusedNotNeeded(r) ==
    /\ pc[r] = "confusedNotNeeded"
    /\ \E ok \in BOOLEAN :
          /\ createIssueCommentReaction(r, "confused", ok)
          /\ IF ok
             THEN Goto(r, "finally") /\ UNCHANGED err
             ELSE Throw(r, HttpError)
    /\ UNCHANGED <<payloadVars, eyesReactionId, behindBy, shouldSign,
                   gitConfig, runVars, lookedUp, uncaught, durationLogged,
                   prComments, remoteVars, fs, envKeyId, now, classifierVars,
                   hostApiVars>>

\* index.ts:99-100 with getInstallationToken (github.ts:112-130).
GetToken(r) ==
    /\ pc[r] = "getToken"
    /\ \E authResult \in {"token object", "no token", "throws"} :
          /\ Trace(r, "auth", authResult, authResult # "throws")
          /\ IF authResult = "throws"
             THEN Throw(r, HttpError)
             ELSE /\ Goto(r, IF getInstallationToken(authResult) = ""
                             THEN "confusedNoToken" ELSE "verify")
                  /\ UNCHANGED err
    /\ UNCHANGED <<payloadVars, eyesReactionId, behindBy, shouldSign,
                   gitConfig, runVars, lookedUp, uncaught, durationLogged,
                   hostVars, remoteVars, fs, envKeyId, now, classifierVars,
                   hostApiVars>>

\* index.ts:101-103.
ConfusedNoToken(r) ==
    /\ pc[r] = "confusedNoToken"
    /\ \E ok \in BOOLEAN :
          /\ createIssueCommentReaction(r, "confused", ok)
          /\ IF ok
             THEN Goto(r, "finally") /\ UNCHANGED err
             ELSE Throw(r, HttpError)
    /\ UNCHANGED <<payloadVars, eyesReactionId, behindBy, shouldSign,
                   gitConfig, runVars, lookedUp, uncaught, durationLogged,
                   prComments, remoteVars, fs, envKeyId, now, classifierVars,
                   hostApiVars>>

\* index.ts:107-143: the verification lookup, the git configuration and the
\* call of the rebase operation up to its first await.
Verify(r) ==
    /\ pc[r] = "verify"
    /\ \E lookupOk \in BOOLEAN :
          LET sign == areCommitsVerified(remoteFeat.commits, lookupOk) IN
          /\ shouldSign' = [shouldSign EXCEPT ![r] = sign]
          /\ gitConfig' = [gitConfig EXCEPT ![r] = BuildGitConfig(sign, envKeyId)]
          /\ trace' = [trace EXCEPT ![r] =
                @ \o << [op |-> "listCommits", arg |-> "", ok |-> lookupOk],
                        [op |-> "rebase", arg |-> "", ok |-> TRUE] >>]
    /\ lookedUp' = [lookedUp EXCEPT ![r] = remoteFeat.commits]
    /\ Goto(r, "mkdtemp")
    /\ UNCHANGED <<payloadVars, eyesReactionId, err, behindBy, runVars,
                   uncaught, durationLogged, hostVars, remoteVars, fs,
                   envKeyId, now, classifierVars,
                   hostApiVars>>

\* index.ts:146.
Rocket(r) ==
    /\ pc[r] = "rocket"
    /\ \E ok \in BOOLEAN :
          /\ createIssueCommentReaction(r, "rocket", ok)
          /\ IF ok
             THEN Goto(r, "finally") /\ UNCHANGED err
             ELSE Throw(r, HttpError)
    /\ UNCHANGED <<payloadVars, eyesReactionId, behindBy, shouldSign,
                   gitConfig, runVars, lookedUp, uncaught, durationLogged,
                   prComments, remoteVars, fs, envKeyId, now, classifierVars,
                   hostApiVars>>

\* index.ts:148-161: the conflict comment.  A failure here leaves the catch
\* block, so control goes to the finally block with the exception pending.
CreateComment(r) ==
    /\ pc[r] = "createComment"
    /\ \E ok \in BOOLEAN :
          /\ Trace(r, "createComment", "", ok)
          /\ IF ok
             THEN /\ prComments' = Append(prComments,
                        [by |-> r, body |-> ConflictCommentBody(err[r].commitSha)])
                  /\ Goto(r, "confusedFail")
                  /\ UNCHANGED uncaught
             ELSE /\ uncaught' = [uncaught EXCEPT ![r] = TRUE]
                  /\ Goto(r, "finally")
                  /\ UNCHANGED prComments
    /\ UNCHANGED <<payloadVars, eyesReactionId, err, behindBy, shouldSign,
                   gitConfig, runVars, lookedUp, durationLogged, reactions,
                   reactionLog, remoteVars, fs, envKeyId, now, classifierVars,
                   hostApiVars>>

\* index.ts:175-176: the failed marker.
ConfusedFail(r) ==
    /\ pc[r] = "confusedFail"
    /\ \E ok \in BOOLEAN :
          /\ createIssueCommentReaction(r, "confused", ok)
          /\ uncaught' = [uncaught EXCEPT ![r] = ~ok]
    /\ Goto(r, "finally")
    /\ UNCHANGED <<payloadVars, eyesReactionId, err, behindBy, shouldSign,
                   gitConfig, runVars, lookedUp, durationLogged, prComments,
                   remoteVars, fs, envKeyId, now, classifierVars,
                   hostApiVars>>

\* Variant: the eyes reaction is deleted at the end of the try and catch
\* blocks instead of in a finally block, so not when an exception is pending.
FinallyUnlessPending(r) ==
    /\ pc[r] = "finally"
    /\ IF eyesReactionId[r] # 0 /\ ~uncaught[r]
       THEN \E ok \in BOOLEAN :
               /\ Trace(r, "deleteReaction", "eyes", ok)
               /\ IF ok
                  THEN /\ reactions' = [reactions EXCEPT ![r] = @ \ {"eyes"}]
                       /\ durationLogged' = [durationLogged EXCEPT ![r] = TRUE]
                       /\ UNCHANGED uncaught
                  ELSE /\ uncaught' = [uncaught EXCEPT ![r] = TRUE]
                       /\ UNCHANGED <<reactions, durationLogged>>
       ELSE /\ durationLogged' = [durationLogged EXCEPT ![r] = ~uncaught[r]]
            /\ UNCHANGED <<trace, reactions, uncaught>>
    /\ Goto(r, "done")
    /\ UNCHANGED <<payloadVars, eyesReactionId, err, behindBy, shouldSign,
                   gitConfig, runVars, lookedUp, reactionLog, prComments,
                   remoteVars, fs, envKeyId, now, classifierVars,
                   hostApiVars>>

\* index.ts:177-189: the finally block.
Finally(r) ==
    /\ pc[r] = "finally"
    /\ IF eyesReactionId[r] # 0
       THEN \E ok \in BOOLEAN :
               /\ Trace(r, "deleteReaction", "eyes", ok)
               /\ IF ok
                  THEN /\ reactions' = [reactions EXCEPT ![r] = @ \ {"eyes"}]
                       /\ durationLogged' = [durationLogged EXCEPT ![r] = TRUE]
                       /\ UNCHANGED uncaught
                  ELSE /\ uncaught' = [uncaught EXCEPT ![r] = TRUE]
                       /\ UNCHANGED <<reactions, durationLogged>>
       ELSE /\ durationLogged' = [durationLogged EXCEPT ![r] = TRUE]
            /\ UNCHANGED <<trace, reactions, uncaught>>
    /\ Goto(r, "done")
    /\ UNCHANGED <<payloadVars, eyesReactionId, err, behindBy, shouldSign,
                   gitConfig, runVars, lookedUp, reactionLog, prComments,
                   remoteVars, fs, envKeyId, now, classifierVars,
                   hostApiVars>>


\* ------------------------------------ the rebase operation, src/src/rebase.ts
\* Variant: the exception leaves run without passing its finally block.
RunFailPastFinally(r, e) == Throw(r, e)

\* An exception raised inside run's try block: control goes to run's
\* finally block with the exception pending (rebase.ts:58-61).
RunFail(r, e) ==
    /\ err' = [err EXCEPT ![r] = e]
    /\ Goto(r, "rm")

\* The SHA a branch value points at.
HeadSha(b) ==
    IF b.commits = <<>> THEN Sha(b.fork) ELSE Sha(b.commits[Len(b.commits)].id)

\* Variant: the first commit is taken for one the base already has.
ReplayDroppingFirst(commits, onto, config) ==
    [i \in 1..(Len(commits) - 1) |->
        Commit(1000 * now + 100 * onto + (commits[i + 1].id % 100),
               IF HasDirective(config, "commit.gpgsign", "true")
               THEN Valid ELSE Unsigned)]

\* The commits of a branch as git replays them onto base commit number onto:
\* a replayed commit is a new commit, signed iff the configuration says so.
\* Its committer date is the second the clock shows, so that two replays of
\* the same commits onto the same base with the same configuration within
\* one second are the same commits.
Replay(commits, onto, config) ==
    [i \in 1..Len(commits) |->
        Commit(1000 * now + 100 * onto + (commits[i].id % 100),
               IF HasDirective(config, "commit.gpgsign", "true")
               THEN Valid ELSE Unsigned)]

\* Variant: the name is the prefix alone and may exist already.
PrefixDir(existing) == "basejump-a"

\* The name mkdtemp gives a new directory: one that does not exist yet.  The
\* random suffix is immaterial, so one representative name is taken.
FreshDir(existing) == CHOOSE d \in WorkDirs \ existing : TRUE

\* rebase.ts:27.
Mkdtemp(r) ==
    /\ pc[r] = "mkdtemp"
    /\ \/ /\ WorkDirs \ fs # {}
          /\ LET d == FreshDir(fs) IN
             /\ fs' = fs \cup {d}
             /\ workingDir' = [workingDir EXCEPT ![r] = d]
             /\ Trace(r, "mkdtemp", d, TRUE)
          /\ Goto(r, "simpleGit")
          /\ UNCHANGED err
       \/ /\ Trace(r, "mkdtemp", "", FALSE)
          /\ Throw(r, OtherError)
          /\ UNCHANGED <<fs, workingDir>>
    /\ UNCHANGED <<payloadVars, eyesReactionId, behindBy, shouldSign,
                   gitConfig, lease, localBase, localFeat, wasRebased,
                   rebaseHead, stoppedAt, lookedUp, uncaught, durationLogged,
                   hostVars,
                   remoteVars, envKeyId, now, classifierVars,
                   hostApiVars>>

\* rebase.ts:30-32: the git client is built before the try block is entered,
\* so an exception here leaves run at once.
SimpleGit(r) ==
    /\ pc[r] = "simpleGit"
    /\ \E ok \in BOOLEAN :
          /\ Trace(r, "simpleGit", "", ok)
          /\ IF ok
             THEN Goto(r, "clone") /\ UNCHANGED err
             ELSE Throw(r, OtherError)
    /\ UNCHANGED <<payloadVars, eyesReactionId, behindBy, shouldSign,
                   gitConfig, runVars, lookedUp, uncaught, durationLogged,
                   hostVars, remoteVars, fs, envKeyId, now, classifierVars,
                   hostApiVars>>

\* Variant: the remote-tracking ref is set to the branch as the handler saw
\* it when it compared and looked up the commits, not as the clone finds it.
CloneLeaseAtTrigger(r) ==
    /\ pc[r] = "clone"
    /\ \E ok \in BOOLEAN :
          /\ Trace(r, "clone", "", ok)
          /\ IF ok
             THEN /\ lease' = [lease EXCEPT ![r] =
                                  Branch(remoteBase - behindBy[r], lookedUp[r])]
                  /\ localBase' = [localBase EXCEPT ![r] = remoteBase]
                  /\ Goto(r, "checkout")
                  /\ UNCHANGED err
             ELSE /\ RunFail(r, OtherError)
                  /\ UNCHANGED <<lease, localBase>>
    /\ UNCHANGED <<payloadVars, eyesReactionId, behindBy, shouldSign,
                   gitConfig, workingDir, localFeat, wasRebased, rebaseHead,
                   stoppedAt,
                   lookedUp, uncaught, durationLogged, hostVars, remoteVars,
                   fs, envKeyId, now, classifierVars,
                   hostApiVars>>

\* rebase.ts:45.
Clone(r) ==
    /\ pc[r] = "clone"
    /\ \E ok \in BOOLEAN :
          /\ Trace(r, "clone", "", ok)
          /\ IF ok
             THEN /\ lease' = [lease EXCEPT ![r] = remoteFeat]
                  /\ localBase' = [localBase EXCEPT ![r] = remoteBase]
                  /\ Goto(r, "checkout")
                  /\ UNCHANGED err
             ELSE /\ RunFail(r, OtherError)
                  /\ UNCHANGED <<lease, localBase>>
    /\ UNCHANGED <<payloadVars, eyesReactionId, behindBy, shouldSign,
                   gitConfig, workingDir, localFeat, wasRebased, rebaseHead,
                   stoppedAt,
                   lookedUp, uncaught, durationLogged, hostVars, remoteVars,
                   fs, envKeyId, now, classifierVars,
                   hostApiVars>>

\* rebase.ts:48.
Checkout(r) ==
    /\ pc[r] = "checkout"
    /\ \E ok \in BOOLEAN :
          /\ Trace(r, "checkout", "", ok)
          /\ IF ok
             THEN /\ localFeat' = [localFeat EXCEPT ![r] = lease[r]]
                  /\ Goto(r, "doRebase")
                  /\ UNCHANGED err
             ELSE /\ RunFail(r, OtherError)
                  /\ UNCHANGED localFeat
    /\ UNCHANGED <<payloadVars, eyesReactionId, behindBy, shouldSign,
                   gitConfig, workingDir, lease, localBase, wasRebased,
                   rebaseHead, stoppedAt, lookedUp, uncaught, durationLogged,
                   hostVars,
                   remoteVars, fs, envKeyId, now, classifierVars,
                   hostApiVars>>

\* What git rebase prints when it returns normally.
UpToDateMessage == "Current branch is up to date."
RebasedMessage == "Successfully rebased and updated."

\* Variant: the up-to-date message is never recognised.
UpToDateMatchNever(message) == FALSE

\* Variant: every message is taken for the up-to-date message.
UpToDateMatchAlways(message) == TRUE

\* rebase.ts:80: message.match(/^Current branch .* is up to date/).
UpToDateMatch(message) == message = UpToDateMessage

\* doRebase, rebase.ts:71-93, up to the outcome of git.rebase, and lines
\* 51-57 of run.  n is the commit git stops at with a CONFLICT.
DoRebase(r) ==
    /\ pc[r] = "doRebase"
    /\ \/ \* git.rebase returns: nothing to do, or every commit is replayed
          /\ LET upToDate == localFeat[r].fork = localBase[r]
                 message == IF upToDate THEN UpToDateMessage
                            ELSE RebasedMessage
                 performed == ~UpToDateMatch(message)
             IN /\ Trace(r, "rebase",
                         IF upToDate THEN "up to date" ELSE "rebased", TRUE)
                /\ localFeat' = [localFeat EXCEPT ![r] =
                      IF upToDate THEN @
                      ELSE Branch(localBase[r],
                                  Replay(@.commits, localBase[r], gitConfig[r]))]
                /\ wasRebased' = [wasRebased EXCEPT ![r] = performed]
                /\ Goto(r, IF performed THEN "pushCheck" ELSE "rm")
          /\ UNCHANGED <<err, rebaseHead, stoppedAt>>
       \/ \* git stops at commit n, its message contains CONFLICT
          /\ localFeat[r].fork # localBase[r]
          /\ \E n \in 1..Len(localFeat[r].commits) :
                /\ stoppedAt' = [stoppedAt EXCEPT ![r] = n]
                /\ rebaseHead' = [rebaseHead EXCEPT ![r] =
                                     localFeat[r].commits[n].id]
          /\ Trace(r, "rebase", "CONFLICT", FALSE)
          /\ Goto(r, "revparse")
          /\ UNCHANGED <<err, localFeat, wasRebased>>
       \/ \* any other failure of git.rebase is rethrown
          /\ Trace(r, "rebase", "other", FALSE)
          /\ RunFail(r, OtherError)
          /\ UNCHANGED <<localFeat, wasRebased, rebaseHead, stoppedAt>>
    /\ UNCHANGED <<payloadVars, eyesReactionId, behindBy, shouldSign,
                   gitConfig, workingDir, lease, localBase, lookedUp,
                   uncaught, durationLogged, hostVars, remoteVars, fs,
                   envKeyId, now, classifierVars,
                   hostApiVars>>

\* git rev-parse in the clone while the rebase is stopped: REBASE_HEAD is
\* the commit being applied, ORIG_HEAD the tip the rebase started from, HEAD
\* the last commit already replayed onto the base.
GitRevparse(r, ref) ==
    CASE ref = "REBASE_HEAD" -> Sha(rebaseHead[r])
      [] ref = "ORIG_HEAD" -> HeadSha(localFeat[r])
      [] OTHER ->
            IF stoppedAt[r] <= 1 THEN Sha(localBase[r])
            ELSE Sha(Replay(localFeat[r].commits, localBase[r],
                            gitConfig[r])[stoppedAt[r] - 1].id)

\* Variant: the tip the rebase started from is reported.
RevparseRefOrigHead == "ORIG_HEAD"

\* The ref doRebase resolves, rebase.ts:88.
RevparseRef == "REBASE_HEAD"

\* rebase.ts:86-90: the conflicting commit is read from REBASE_HEAD.
Revparse(r) ==
    /\ pc[r] = "revparse"
    /\ \E ok \in BOOLEAN :
          /\ Trace(r, "revparse", RevparseRef, ok)
          /\ RunFail(r, IF ok
                        THEN CodeConflictError(GitRevparse(r, RevparseRef))
                        ELSE OtherError)
    /\ UNCHANGED <<payloadVars, eyesReactionId, behindBy, shouldSign,
                   gitConfig, runVars, lookedUp, uncaught, durationLogged,
                   hostVars, remoteVars, fs, envKeyId, now, classifierVars,
                   hostApiVars>>

\* Variant: the rebased branch is pushed onto the base branch.
PushBranchBase == "base"

\* The remote branch the push writes, rebase.ts:97 (branch is featBranch,
\* rebase.ts:54-56).
PushBranch == "feature"

\* Variant: a plain forced push.
PushArgsPlainForce == {"--force"}

\* The options of the push, rebase.ts:97.
PushArgs == {"--force-with-lease"}

IsSha(s) ==
    /\ Len(s) = ShaLen
    /\ \A i \in 1..Len(s) : \E d \in 1..Len(HexDigits) : s[i] = HexDigits[d]

StaleInfo == [text |-> "[rejected] (stale info)", at |-> <<>>, expected |-> <<>>]
LockMismatch(at, expected) ==
    [text |-> "is at but expected", at |-> at, expected |-> expected]
OtherPushFailure == [text |-> "other", at |-> <<>>, expected |-> <<>>]

\* Variant: a failure that is not a changed remote is logged and dropped.
forcePushWithLeaseErrorSwallowed(message) ==
    IF \/ message.text = "[rejected] (stale info)"
       \/ /\ message.text = "is at but expected"
          /\ IsSha(message.at) /\ IsSha(message.expected)
    THEN RemoteChangedError
    ELSE NoError

\* The catch block of forcePushWithLease, rebase.ts:98-111: the error it
\* throws for the message of a failed push.
forcePushWithLeaseError(message) ==
    IF \/ message.text = "[rejected] (stale info)"
       \/ /\ message.text = "is at but expected"
          /\ IsSha(message.at) /\ IsSha(message.expected)
    THEN RemoteChangedError
    ELSE OtherError

\* git push, first half: the client reads the remote ref and, under
\* --force-with-lease, compares it with its remote-tracking ref.
PushCheck(r) ==
    /\ pc[r] = "pushCheck"
    /\ \/ \* the remote ref is what would be pushed: 'Everything up-to-date'
          /\ remoteFeat = localFeat[r]
          /\ Trace(r, "push", "up to date", TRUE)
          /\ Goto(r, "rm")
          /\ UNCHANGED err
       \/ /\ remoteFeat # localFeat[r]
          /\ "--force-with-lease" \in PushArgs => remoteFeat = lease[r]
          /\ Goto(r, "pushUpdate")
          /\ UNCHANGED <<err, trace>>
       \/ /\ remoteFeat # localFeat[r]
          /\ "--force-with-lease" \in PushArgs
          /\ remoteFeat # lease[r]
          /\ Trace(r, "push", "stale info", FALSE)
          /\ RunFail(r, forcePushWithLeaseError(StaleInfo))
       \/ /\ Trace(r, "push", "other", FALSE)
          /\ RunFail(r, forcePushWithLeaseError(OtherPushFailure))
    /\ UNCHANGED <<payloadVars, eyesReactionId, behindBy, shouldSign,
                   gitConfig, runVars, lookedUp, uncaught, durationLogged,
                   hostVars, remoteVars, fs, envKeyId, now, classifierVars,
                   hostApiVars>>

\* git push, second half: the remote updates the ref, under
\* --force-with-lease only if it still holds the expected value.
PushUpdate(r) ==
    /\ pc[r] = "pushUpdate"
    /\ \/ /\ "--force-with-lease" \in PushArgs => remoteFeat = lease[r]
          /\ IF PushBranch = "feature"
             THEN remoteFeat' = localFeat[r] /\ UNCHANGED remoteBase
             ELSE /\ remoteBase' = localFeat[r].fork + Len(localFeat[r].commits)
                  /\ UNCHANGED remoteFeat
          /\ Trace(r, "push", "accepted", TRUE)
          /\ Goto(r, "rm")
          /\ UNCHANGED err
       \/ /\ "--force-with-lease" \in PushArgs
          /\ remoteFeat # lease[r]
          /\ Trace(r, "push", "is at but expected", FALSE)
          /\ RunFail(r, forcePushWithLeaseError(
                LockMismatch(HeadSha(remoteFeat), HeadSha(lease[r]))))
          /\ UNCHANGED <<remoteFeat, remoteBase>>
       \/ /\ Trace(r, "push", "other", FALSE)
          /\ RunFail(r, forcePushWithLeaseError(OtherPushFailure))
          /\ UNCHANGED <<remoteFeat, remoteBase>>
    /\ UNCHANGED <<payloadVars, eyesReactionId, behindBy, shouldSign,
                   gitConfig, runVars, lookedUp, uncaught, durationLogged,
                   hostVars, actorPushes, fs, envKeyId, now, classifierVars,
                   hostApiVars>>

\* rebase.ts:58-61 and the return to the handler: run's finally block
\* removes the working directory; a pending exception is rethrown, and a
\* failure of the removal replaces it.
Rm(r) ==
    /\ pc[r] = "rm"
    /\ \E ok \in BOOLEAN :
          /\ Trace(r, "rm", workingDir[r], ok)
          /\ IF ok
             THEN /\ fs' = fs \ {workingDir[r]}
                  /\ IF err[r] = NoError
                     THEN Goto(r, "rocket") /\ UNCHANGED err
                     ELSE Throw(r, err[r])
             ELSE /\ Throw(r, OtherError)
                  /\ UNCHANGED fs
    /\ UNCHANGED <<payloadVars, eyesReactionId, behindBy, shouldSign,
                   gitConfig, runVars, lookedUp, uncaught, durationLogged,
                   hostVars, remoteVars, envKeyId, now, classifierVars,
                   hostApiVars>>

\* ------------------------------------------------------------ other actors
InFlight(r) == pc[r] \notin {"off", "idle", "ignored", "done"}

\* Another actor pushes to the feature branch: a new commit on top, a forced
\* push that drops the last commit, or the branch rebased onto the base.
ActorPushFeature ==
    /\ actorPushes < MaxActorPushes
    /\ \E r \in Reqs : InFlight(r)
    /\ actorPushes' = actorPushes + 1
    /\ \/ /\ Len(remoteFeat.commits) < MaxCommits
          /\ \E v \in HostVerifications :
                remoteFeat' = Branch(remoteFeat.fork,
                    Append(remoteFeat.commits, Commit(10 + actorPushes, v)))
       \/ /\ Len(remoteFeat.commits) > 1
          /\ remoteFeat' = Branch(remoteFeat.fork,
                SubSeq(remoteFeat.commits, 1, Len(remoteFeat.commits) - 1))
       \/ /\ remoteFeat.fork < remoteBase
          /\ remoteFeat' = Branch(remoteBase, remoteFeat.commits)
    /\ UNCHANGED <<reqVars, hostVars, remoteBase, fs, envKeyId, now, classifierVars,
                   hostApiVars>>

\* A second passes.  The clock is read by the native rebase only, so the
\* seconds that pass while no request is about to rebase are left out.
Seconds == {0, 1}
Tick ==
    /\ \E r \in Reqs : pc[r] = "doRebase"
    /\ now + 1 \in Seconds
    /\ now' = now + 1
    /\ UNCHANGED <<reqVars, hostVars, remoteVars, fs, envKeyId, classifierVars,
                   hostApiVars>>

\* ------------------------------------------------------------ specification
Handler(r) ==
    \/ Receive(r) \/ CreateEyes(r) \/ GetPR(r) \/ Compare(r)
    \/ ConfusedNotNeeded(r) \/ GetToken(r) \/ ConfusedNoToken(r)
    \/ Verify(r) \/ Rocket(r) \/ CreateComment(r) \/ ConfusedFail(r)
    \/ Finally(r)

Run(r) ==
    \/ Mkdtemp(r) \/ SimpleGit(r) \/ Clone(r) \/ Checkout(r) \/ DoRebase(r)
    \/ Revparse(r) \/ PushCheck(r) \/ PushUpdate(r) \/ Rm(r)

Next ==
    \/ \E r \in Reqs : Handler(r)
    \/ \E r \in Reqs : Run(r)
    \/ ActorPushFeature

Spec == Init /\ [][Next]_vars

\* The verification classifier on its own: a commit list of any shape and
\* either outcome of the lookup.
ClassifierCommitLists ==
    {cs \in SeqsUpTo({Commit(i, v) : i \in 1..MaxLen, v \in AllVerifications},
                     MaxLen) :
        \A i \in 1..Len(cs) : cs[i].id = i}

InitClassifier ==
    /\ HostApiOff
    /\ InitWith({}, {1}, {<<Commit(1, Valid)>>}, {"deadbeef"})
    /\ vcommits \in ClassifierCommitLists

Classify ==
    /\ ~vresult.done
    /\ \E lookupOk \in BOOLEAN :
          vresult' = [done |-> TRUE, lookupOk |-> lookupOk,
                      value |-> areCommitsVerified(vcommits, lookupOk)]
    /\ UNCHANGED <<reqVars, hostVars, remoteVars, fs, envKeyId, now, vcommits,
                   hostApiVars>>


SpecClassifier == InitClassifier /\ [][Classify]_vars


\* One request on a pull request whose commits are all verified, with the
\* signing key configured: the flow of the handler and of the rebase
\* operation, which does not depend on the signing policy.
FlowCommitLists ==
    {[i \in 1..n |-> Commit(i, Valid)] : n \in 1..MaxCommits}

InitFlow ==
    /\ HostApiOff
    /\ InitWith({1}, {MaxBase}, FlowCommitLists, {"deadbeef"})
    /\ vcommits = <<>>

SpecFlow == InitFlow /\ [][Next]_vars

\* Two '/rebase' comments on the same pull request, handled concurrently,
\* with no other actor.
InitTwo ==
    /\ HostApiOff
    /\ InitWith(Reqs, {MaxBase}, {<<Commit(1, Valid)>>}, {"deadbeef"})
    /\ vcommits = <<>>

NextTwo ==
    \/ \E r \in Reqs : Handler(r)
    \/ \E r \in Reqs : Run(r)
    \/ Tick

SpecTwo == InitTwo /\ [][NextTwo]_vars

\* --------------------------- the host-API rebase, src/unnamed/part_003
\* The earlier rebase operation, made of host API calls only: the commits of
\* the pull request are cherry-picked one by one onto a temporary branch
\* created from the base, then the head branch is moved.  Base commits are
\* numbered from 1, the pull request forks from base commit 1, its commits
\* are numbered from 11 and the commits the operation creates from 101.
appVars == <<reqVars, hostVars, remoteVars, fs, envKeyId, now,
             classifierVars>>
ForkPoint == 1
PullSha(i) == 10 + i
NewSha == 100 + Len(objects) + 1

\* The commits of a pull request: each has its predecessor as first parent,
\* and a merge commit has a base commit as second parent.
PullCommit(i, nparents) ==
    [sha |-> PullSha(i),
     parents |-> IF nparents = 1
                 THEN <<IF i = 1 THEN ForkPoint ELSE PullSha(i - 1)>>
                 ELSE <<IF i = 1 THEN ForkPoint ELSE PullSha(i - 1), ForkPoint>>]
PullCommitLists ==
    {[i \in 1..n |-> PullCommit(i, np[i])] :
        n \in 1..MaxCommits, np \in [1..MaxCommits -> {1, 2}]}

BaseTree(b) == [base |-> b, picked |-> <<>>]

\* The exceptions of the operation: a failed request, CodeConflictError
\* with the commit it is about, and a plain Error.
RequestError(call) == [kind |-> "http", call |-> call, commitSha |-> 0]
MergeConflictError(commit) ==
    [kind |-> "conflict", call |-> "merge", commitSha |-> commit]
PlainError(call, commit) ==
    [kind |-> "error", call |-> call, commitSha |-> commit]

\* An exception is raised inside the try block of rebase: control goes to
\* its finally block (part_003:224).
ApiThrow(e) ==
    /\ apiErr' = e
    /\ raised' = e
    /\ apiPc' = "deleteRef"

\* The commit the loop is at.
Picked == listed[pickIdx]

\* part_003:182-185: the head commit of the base branch is fetched.
GetBaseCommit ==
    /\ apiPc = "getBaseCommit"
    /\ \/ /\ baseCommit' = [sha |-> refs.main, tree |-> BaseTree(refs.main)]
          /\ apiPc' = "listCommits"
          /\ UNCHANGED <<apiErr, raised>>
       \/ /\ ApiThrow(RequestError("repos.getCommit"))
          /\ UNCHANGED baseCommit
    /\ UNCHANGED <<pr, pullCommits, refs, objects, listed, currentSha,
                   currentTree, pickIdx, pick>>
    /\ UNCHANGED appVars

\* part_003:188-191: one response of the list-commits endpoint.
ListCommits ==
    /\ apiPc = "listCommits"
    /\ \/ /\ listed' = ListCommitsResponse(pullCommits)
          /\ apiPc' = "createRef"
          /\ UNCHANGED <<apiErr, raised>>
       \/ /\ ApiThrow(RequestError("pulls.listCommits"))
          /\ UNCHANGED listed
    /\ UNCHANGED <<pr, pullCommits, refs, objects, baseCommit, currentSha,
                   currentTree, pickIdx, pick>>
    /\ UNCHANGED appVars

\* part_003:194-202: the temporary branch is created from the fetched base
\* commit, and the loop's currentSha and currentTree are set.
CreateRef ==
    /\ apiPc = "createRef"
    /\ \/ /\ refs' = [refs EXCEPT !.temp = baseCommit.sha]
          /\ currentSha' = pr.base.sha
          /\ currentTree' = baseCommit.tree
          /\ pickIdx' = 1
          /\ apiPc' = IF listed = <<>> THEN "updateHead" ELSE "getCommit"
          /\ UNCHANGED <<apiErr, raised>>
       \/ /\ ApiThrow(RequestError("git.createRef"))
          /\ UNCHANGED <<refs, currentSha, currentTree, pickIdx>>
    /\ UNCHANGED <<pr, pullCommits, objects, baseCommit, listed, pick>>
    /\ UNCHANGED appVars

\* cherryPickCommit, part_003:120-131: the commit is fetched, and a merge
\* commit is refused.
PickGetCommit ==
    /\ apiPc = "getCommit"
    /\ \/ /\ IF Len(Picked.parents) > 1
             THEN /\ ApiThrow(PlainError("cherryPickCommit", Picked.sha))
                  /\ UNCHANGED pick
             ELSE /\ pick' = [pick EXCEPT !.parents = Picked.parents]
                  /\ apiPc' = "createSibling"
                  /\ UNCHANGED <<apiErr, raised>>
       \/ /\ ApiThrow(RequestError("git.getCommit"))
          /\ UNCHANGED pick
    /\ UNCHANGED <<pr, pullCommits, refs, objects, baseCommit, listed,
                   currentSha, currentTree, pickIdx>>
    /\ UNCHANGED appVars

\* part_003:134-139: the sibling commit, with the branch's tree and the
\* parent of the commit to pick.
CreateSibling ==
    /\ apiPc = "createSibling"
    /\ \/ /\ objects' = Append(objects,
                [sha |-> NewSha, parents |-> <<pick.parents[1]>>,
                 tree |-> currentTree, message |-> "Temp sibling",
                 of |-> Picked.sha])
          /\ pick' = [pick EXCEPT !.siblingCommit = NewSha]
          /\ apiPc' = "updateRefSibling"
          /\ UNCHANGED <<apiErr, raised>>
       \/ /\ ApiThrow(RequestError("git.createCommit"))
          /\ UNCHANGED <<objects, pick>>
    /\ UNCHANGED <<pr, pullCommits, refs, baseCommit, listed, currentSha,
                   currentTree, pickIdx>>
    /\ UNCHANGED appVars

\* part_003:142-147: the temporary branch is moved to the sibling commit.
UpdateRefSibling ==
    /\ apiPc = "updateRefSibling"
    /\ \/ /\ refs' = [refs EXCEPT !.temp = pick.siblingCommit]
          /\ apiPc' = "merge"
          /\ UNCHANGED <<apiErr, raised>>
       \/ /\ ApiThrow(RequestError("git.updateRef"))
          /\ UNCHANGED refs
    /\ UNCHANGED <<pr, pullCommits, objects, baseCommit, listed, currentSha,
                   currentTree, pickIdx, pick>>
    /\ UNCHANGED appVars

\* merge, part_003:61-102: the host merges the commit into the temporary
\* branch and the tree of the merge commit is kept; status 409 becomes
\* CodeConflictError with the commit, any other failure a plain Error.
Merge ==
    /\ apiPc = "merge"
    /\ \/ /\ objects' = Append(objects,
                [sha |-> NewSha, parents |-> <<refs.temp, Picked.sha>>,
                 tree |-> [currentTree EXCEPT
                              !.picked = Append(@, Picked.sha)],
                 message |-> "Merge", of |-> Picked.sha])
          /\ refs' = [refs EXCEPT !.temp = NewSha]
          /\ pick' = [pick EXCEPT !.tree =
                        [currentTree EXCEPT !.picked = Append(@, Picked.sha)]]
          /\ apiPc' = "createNewHead"
          /\ UNCHANGED <<apiErr, raised>>
       \/ /\ ApiThrow(MergeConflictError(Picked.sha))
          /\ UNCHANGED <<objects, refs, pick>>
       \/ /\ ApiThrow(PlainError("merge", Picked.sha))
          /\ UNCHANGED <<objects, refs, pick>>
    /\ UNCHANGED <<pr, pullCommits, baseCommit, listed, currentSha,
                   currentTree, pickIdx>>
    /\ UNCHANGED appVars

\* part_003:156-162: the rebased commit, with the merged tree and branch.sha
\* as its parent.
CreateNewHead ==
    /\ apiPc = "createNewHead"
    /\ \/ /\ objects' = Append(objects,
                [sha |-> NewSha, parents |-> <<currentSha>>,
                 tree |-> pick.tree, message |-> "original",
                 of |-> Picked.sha])
          /\ apiPc' = "updateRefNewHead"
          /\ UNCHANGED <<apiErr, raised>>
       \/ /\ ApiThrow(RequestError("git.createCommit"))
          /\ UNCHANGED objects
    /\ UNCHANGED <<pr, pullCommits, refs, baseCommit, listed, currentSha,
                   currentTree, pickIdx, pick>>
    /\ UNCHANGED appVars

\* The commit the last createCommit call returned.
NewHead == objects[Len(objects)]

\* part_003:165-172 and 213-215: the temporary branch is moved to the
\* rebased commit, which becomes currentSha, and the loop goes on.
UpdateRefNewHead ==
    /\ apiPc = "updateRefNewHead"
    /\ \/ /\ refs' = [refs EXCEPT !.temp = NewHead.sha]
          /\ currentSha' = NewHead.sha
          /\ currentTree' = NewHead.tree
          /\ pickIdx' = pickIdx + 1
          /\ pick' = NoPick
          /\ apiPc' = IF pickIdx < Len(listed) THEN "getCommit"
                      ELSE "updateHead"
          /\ UNCHANGED <<apiErr, raised>>
       \/ /\ ApiThrow(RequestError("git.updateRef"))
          /\ UNCHANGED <<refs, currentSha, currentTree, pickIdx, pick>>
    /\ UNCHANGED <<pr, pullCommits, objects, baseCommit, listed>>
    /\ UNCHANGED appVars

\* part_003:218-223: the head branch of the pull request is moved, by force.
UpdateHead ==
    /\ apiPc = "updateHead"
    /\ \/ /\ refs' = [refs EXCEPT !.feature = currentSha]
          /\ apiPc' = "deleteRef"
          /\ UNCHANGED <<apiErr, raised>>
       \/ /\ ApiThrow(RequestError("git.updateRef"))
          /\ UNCHANGED refs
    /\ UNCHANGED <<pr, pullCommits, objects, baseCommit, listed, currentSha,
                   currentTree, pickIdx, pick>>
    /\ UNCHANGED appVars

\* part_003:224-230: the finally block deletes the temporary branch.  The
\* host answers 422 for a ref that does not exist; an exception of the
\* deletion replaces the one in flight.
DeleteRef ==
    /\ apiPc = "deleteRef"
    /\ \/ /\ refs.temp # NoRef
          /\ refs' = [refs EXCEPT !.temp = NoRef]
          /\ apiPc' = IF apiErr = NoApiError THEN "returned" ELSE "thrown"
          /\ UNCHANGED apiErr
       \/ /\ apiErr' = RequestError("git.deleteRef")
          /\ apiPc' = "thrown"
          /\ UNCHANGED refs
    /\ UNCHANGED <<pr, pullCommits, objects, baseCommit, listed, currentSha,
                   currentTree, pickIdx, pick, raised>>
    /\ UNCHANGED appVars

\* Another actor pushes a commit to the base branch while the operation runs.
BaseAdvance ==
    /\ apiPc \notin {"off", "returned", "thrown"}
    /\ refs.main < MaxBase + 1
    /\ refs' = [refs EXCEPT !.main = @ + 1]
    /\ UNCHANGED <<apiPc, pr, pullCommits, objects, baseCommit, listed,
                   currentSha, currentTree, pickIdx, pick, apiErr, raised>>
    /\ UNCHANGED appVars

\* rebase(ctx, pr) is called with the pull request object the handler has
\* just fetched, for a pull request that is behind its base.
InitHostApi ==
    /\ InitWith({}, {1}, {<<Commit(1, Valid)>>}, {"deadbeef"})
    /\ vcommits = <<>>
    /\ apiPc = "getBaseCommit"
    /\ pullCommits \in PullCommitLists
    /\ \E b \in (ForkPoint + 1)..MaxBase :
          /\ refs = [main |-> b, feature |-> PullSha(Len(pullCommits)),
                     temp |-> NoRef]
          /\ pr = [number |-> 1, base |-> [ref |-> "main", sha |-> b],
                   head |-> [ref |-> "feature"]]
    /\ objects = <<>>
    /\ baseCommit = NoBaseCommit
    /\ listed = <<>>
    /\ currentSha = 0
    /\ currentTree = NoTree
    /\ pickIdx = 0
    /\ pick = NoPick
    /\ apiErr = NoApiError
    /\ raised = NoApiError

NextHostApi ==
    \/ GetBaseCommit \/ ListCommits \/ CreateRef \/ PickGetCommit
    \/ CreateSibling \/ UpdateRefSibling \/ Merge \/ CreateNewHead
    \/ UpdateRefNewHead \/ UpdateHead \/ DeleteRef
    \/ BaseAdvance

SpecHostApi == InitHostApi /\ [][NextHostApi]_vars

\* ================================================================= claims
Called(r, op) == \E i \in 1..Len(trace[r]) : trace[r][i].op = op
CalledWith(r, op, arg, ok) ==
    \E i \in 1..Len(trace[r]) :
       trace[r][i] = [op |-> op, arg |-> arg, ok |-> ok]
Returned(r, op) ==
    \E i \in 1..Len(trace[r]) : trace[r][i].op = op /\ trace[r][i].ok
Failed(r, op) ==
    \E i \in 1..Len(trace[r]) : trace[r][i].op = op /\ ~trace[r][i].ok
Ops(r) == [i \in 1..Len(trace[r]) |-> trace[r][i].op]
LastCall(r) == trace[r][Len(trace[r])]
CommentsBy(r) == {i \in 1..Len(prComments) : prComments[i].by = r}

C2_EyesDeleted ==
    \A r \in Reqs :
       (pc[r] = "done" /\ Returned(r, "createReaction") /\ eyesReactionId[r] # 0) =>
          /\ Called(r, "deleteReaction")
          /\ LastCall(r).op = "deleteReaction"
          /\ LastCall(r).ok => "eyes" \notin reactions[r]

\* C2 witness: the conflict comment failed inside the catch block and the
\* eyes reaction is gone all the same.
C2_Witness ==
    \E r \in Reqs :
       /\ pc[r] = "done"
       /\ Failed(r, "createComment")
       /\ uncaught[r]
       /\ "eyes" \in {reactionLog[r][i] : i \in 1..Len(reactionLog[r])}
       /\ "eyes" \notin reactions[r]

\* C3: once run has returned or thrown, and the removal itself did not
\* fail, the working directory it created does not exist.
C3_WorkspaceRemoved ==
    \A r \in Reqs :
       (/\ pc[r] \in {"rocket", "createComment", "confusedFail", "finally", "done"}
        /\ workingDir[r] # NoDir
        /\ ~Failed(r, "rm")) =>
          workingDir[r] \notin fs

\* C4: a request whose comparison returned behind_by = 0 never retrieves a
\* token, looks up verification, clones, rebases or pushes; the reactions it
\* creates are eyes then at most one confused; and when none of its calls
\* failed its calls are exactly eyes, get, compare, confused, delete, leaving
\* the confused reaction alone on the comment.
C4_NotNeeded ==
    \A r \in Reqs :
       (Returned(r, "compareCommitsWithBasehead") /\ behindBy[r] = 0) =>
          /\ \A op \in {"auth", "listCommits", "rebase", "mkdtemp", "simpleGit",
                        "clone", "checkout", "revparse", "push", "rm"} :
                ~Called(r, op)
          /\ workingDir[r] = NoDir
          /\ reactionLog[r] \in {<<"eyes">>, <<"eyes", "confused">>}
          /\ (pc[r] = "done" /\ \A i \in 1..Len(trace[r]) : trace[r][i].ok) =>
                /\ Ops(r) = <<"createReaction", "pulls.get",
                              "compareCommitsWithBasehead", "createReaction",
                              "deleteReaction">>
                /\ reactionLog[r] = <<"eyes", "confused">>
                /\ reactions[r] = {"confused"}

\* C4 witness: the early exit was taken and completed.
C4_Witness ==
    \E r \in Reqs :
       /\ pc[r] = "done"
       /\ Returned(r, "compareCommitsWithBasehead")
       /\ behindBy[r] = 0
       /\ reactionLog[r] = <<"eyes", "confused">>
       /\ reactions[r] = {"confused"}

\* C5: whenever the rebase is called for a pull request of K >= 1 commits of
\* which at least one is not verified with reason 'valid', the configuration
\* disables signing: it holds commit.gpgsign=false, not commit.gpgsign=true,
\* and no user.signingkey directive.
C5_AllOrNothing ==
    \A r \in Reqs :
       (/\ Called(r, "rebase")
        /\ Len(lookedUp[r]) >= 1
        /\ \E i \in 1..Len(lookedUp[r]) :
              ~(lookedUp[r][i].verification.verified
                /\ lookedUp[r][i].verification.reason = "valid")) =>
          /\ HasDirective(gitConfig[r], "commit.gpgsign", "false")
          /\ ~HasDirective(gitConfig[r], "commit.gpgsign", "true")
          /\ ~HasKey(gitConfig[r], "user.signingkey")


\* C6 as stated: the classifier's result is true iff the records it
\* collected are non-empty and each is verified with reason 'valid'; an
\* empty list yields false.
C6_NonEmptyAndAllValid ==
    (vresult.done /\ vresult.lookupOk) =>
       LET records == ListCommitsResponse(vcommits) IN
       vresult.value <=>
          /\ Len(records) >= 1
          /\ \A i \in 1..Len(records) :
                /\ records[i].verification.verified = TRUE
                /\ records[i].verification.reason = "valid"

\* C6 as amended: the classifier's result is true iff the lookup succeeded
\* and every record it returned has verified = true with reason 'valid'; an
\* empty list yields true.
C6_AllValid ==
    vresult.done =>
       LET records == ListCommitsResponse(vcommits) IN
       /\ vresult.value <=>
             /\ vresult.lookupOk
             /\ \A i \in 1..Len(records) :
                   /\ records[i].verification.verified = TRUE
                   /\ records[i].verification.reason = "valid"
       /\ (vresult.lookupOk /\ vcommits = <<>>) => vresult.value = TRUE

\* C6 witness: the classifier ran on an empty commit list and said true.
C6_Witness ==
    /\ vresult.done
    /\ vresult.lookupOk
    /\ vcommits = <<>>
    /\ vresult.value = TRUE

\* C7: when the list-commits lookup fails, the classifier's result is false,
\* nothing is thrown, the next thing the request does is call the rebase,
\* and the configuration it passes disables signing.
C7_FailClosed ==
    \A r \in Reqs :
       \A i \in 1..Len(trace[r]) :
          (trace[r][i].op = "listCommits" /\ ~trace[r][i].ok) =>
             /\ shouldSign[r] = FALSE
             /\ Len(trace[r]) > i
             /\ trace[r][i + 1].op = "rebase"
             /\ pc[r] = "mkdtemp" => err[r] = NoError
             /\ HasDirective(gitConfig[r], "commit.gpgsign", "false")
             /\ ~HasDirective(gitConfig[r], "commit.gpgsign", "true")
             /\ ~HasKey(gitConfig[r], "user.signingkey")

\* C7 witness: the lookup failed for a pull request whose commits are all
\* verified, with a signing key configured, and the rebase is under way.
C7_Witness ==
    \E r \in Reqs :
       /\ pc[r] = "clone"
       /\ Failed(r, "listCommits")
       /\ envKeyId # ""
       /\ \A i \in 1..Len(lookedUp[r]) : lookedUp[r][i].verification = Valid
       /\ HasDirective(gitConfig[r], "commit.gpgsign", "false")

\* C8: after a code conflict carrying SHA s the handler makes exactly one
\* create-comment call; the comment it creates names the first 7 characters
\* of s and asks to resolve the conflict and push again; the calls that
\* follow are the confused reaction and then the deletion of the eyes
\* reaction, which ends the request.
C8_ConflictComment ==
    \A r \in Reqs :
       (err[r].kind = "conflict" /\ pc[r] \in {"confusedFail", "finally", "done"}) =>
          LET s == err[r].commitSha
              k == CHOOSE i \in 1..Len(trace[r]) : trace[r][i].op = "createComment"
          IN
          /\ Cardinality({i \in 1..Len(trace[r]) : trace[r][i].op = "createComment"}) = 1
          /\ s = Sha(rebaseHead[r])
          /\ trace[r][k].ok =>
                /\ Cardinality(CommentsBy(r)) = 1
                /\ \A i \in CommentsBy(r) :
                      /\ Len(prComments[i].body.short) = 7
                      /\ \A j \in 1..7 : prComments[i].body.short[j] = s[j]
                      /\ prComments[i].body.lead =
                            "Failed to rebase: Conflict detected when applying commit "
                      /\ prComments[i].body.ask =
                            "Please resolve the conflict and push again."
                /\ pc[r] = "done" =>
                      /\ Len(trace[r]) = k + 2
                      /\ trace[r][k + 1].op = "createReaction"
                      /\ trace[r][k + 1].arg = "confused"
                      /\ trace[r][k + 2].op = "deleteReaction"
                      /\ (trace[r][k + 1].ok /\ trace[r][k + 2].ok) =>
                            reactions[r] = {"confused"}

\* C8 witness: a conflict was reported by a comment, the failed marker is
\* on the triggering comment and the eyes reaction is gone.
C8_Witness ==
    \E r \in Reqs :
       /\ pc[r] = "done"
       /\ err[r].kind = "conflict"
       /\ Cardinality(CommentsBy(r)) = 1
       /\ reactions[r] = {"confused"}

\* C9: a comment is created on the pull request only for a request whose
\* failure is a code conflict.
C9_CommentOnlyOnConflict ==
    \A r \in Reqs :
       /\ CommentsBy(r) # {} => err[r].kind = "conflict"
       /\ Called(r, "createComment") => err[r].kind = "conflict"

\* C9 witness: a request ended after a remote-changed failure with the
\* failed marker and without a comment.
C9_Witness ==
    \E r \in Reqs :
       /\ pc[r] = "done"
       /\ err[r] = RemoteChangedError
       /\ "confused" \in reactions[r]
       /\ prComments = <<>>

\* C10: every request that ended in a failure case, and whose confused
\* reaction call did not itself fail, has the confused reaction on the
\* triggering comment.
C10_FailedMarker ==
    \A r \in Reqs :
       (/\ pc[r] = "done"
        /\ err[r] # NoError
        /\ ~CalledWith(r, "createReaction", "confused", FALSE)) =>
          "confused" \in reactions[r]

CallCount(r, op) ==
    Cardinality({i \in 1..Len(trace[r]) : trace[r][i].op = op})
Created(r, contents) ==
    Cardinality({i \in 1..Len(reactionLog[r]) : reactionLog[r][i] \in contents})

\* C11: every handled request that ended, and none of whose reaction calls
\* failed, created exactly one eyes reaction and exactly one terminal
\* reaction (rocket or confused).
C11_OneReceivedOneTerminal ==
    \A r \in Reqs :
       (/\ pc[r] = "done"
        /\ ~Failed(r, "createReaction")) =>
          /\ Created(r, {"eyes"}) = 1
          /\ Created(r, {"rocket", "confused"}) = 1

\* C12: a request whose comment does not start with '/rebase', or whose
\* issue is not a pull request, takes one step only, to ignored, and that
\* step creates or deletes no reaction and no comment, makes no call,
\* creates no directory and leaves the remote refs alone.
C12_IgnoredNoEffect ==
    [][\A r \in Reqs :
          ((~body[r] \/ ~isPR[r]) /\ pc'[r] # pc[r]) =>
             /\ pc[r] = "idle" /\ pc'[r] = "ignored"
             /\ trace'[r] = <<>>
             /\ UNCHANGED <<hostVars, remoteVars, fs, workingDir,
                            eyesReactionId>>]_vars

\* C12 witness: a '/rebase' comment on a regular issue was ignored.
C12_Witness ==
    \E r \in Reqs :
       /\ pc[r] = "ignored"
       /\ body[r] /\ ~isPR[r]
       /\ trace[r] = <<>>
       /\ reactionLog[r] = <<>>
       /\ fs = {}

\* The error forcePushWithLease raises for the outcome a failed push was
\* recorded with.
PushErrorOf(arg) ==
    IF arg \in {"stale info", "is at but expected"}
    THEN RemoteChangedError ELSE OtherError

\* C13: a failed push raises RemoteChangedError when the client reported
\* stale info or the remote reported the ref at another value, and a generic
\* error otherwise; the error reaches the handler (unless removing the
\* working directory fails, which replaces it by that failure), no rocket
\* reaction is attempted, and the request ends with the confused reaction
\* unless posting it failed.
C13_PushFailureClassified ==
    \A r \in Reqs :
       \A i \in 1..Len(trace[r]) :
          (trace[r][i].op = "push" /\ ~trace[r][i].ok) =>
             /\ err[r] # NoError
             /\ (pc[r] = "rm" \/ Returned(r, "rm")) =>
                   err[r] = PushErrorOf(trace[r][i].arg)
             /\ ~Called(r, "createComment")
             /\ ~CalledWith(r, "createReaction", "rocket", TRUE)
             /\ ~CalledWith(r, "createReaction", "rocket", FALSE)
             /\ (/\ pc[r] = "done"
                 /\ ~CalledWith(r, "createReaction", "confused", FALSE)) =>
                   /\ "confused" \in reactions[r]
                   /\ "rocket" \notin reactions[r]

\* C13 witness: a push failed for a reason other than a changed remote and
\* the request ended with the confused reaction.
C13_Witness ==
    \E r \in Reqs :
       /\ pc[r] = "done"
       /\ CalledWith(r, "push", "other", FALSE)
       /\ Returned(r, "rm")
       /\ err[r] = OtherError
       /\ "confused" \in reactions[r]
       /\ "rocket" \notin reactions[r]

UpToDate(r) == CalledWith(r, "rebase", "up to date", TRUE)

\* C14: once the native rebase of a request has reported the branch up to
\* date, the request never attempts a push, none of its steps changes the
\* remote feature ref, and it ends with the rocket reaction and without the
\* confused one, provided removing the working directory and posting the
\* reaction did not fail.
C14_UpToDateNoPush ==
    [][\A r \in Reqs :
          UpToDate(r)' =>
             /\ ~Called(r, "push")'
             /\ pc'[r] \notin {"pushCheck", "pushUpdate"}
             /\ ~wasRebased'[r]
             /\ pc'[r] # pc[r] => UNCHANGED <<remoteFeat, remoteBase>>
             /\ (/\ pc'[r] = "done"
                 /\ Returned(r, "rm")'
                 /\ ~Failed(r, "createReaction")') =>
                   /\ "rocket" \in reactions'[r]
                   /\ reactionLog'[r] = <<"eyes", "rocket">>]_vars

\* C14 witness: the gate saw the branch behind, the native rebase found it
\* up to date, and the request ended with the rocket reaction and no push.
C14_Witness ==
    \E r \in Reqs :
       /\ pc[r] = "done"
       /\ behindBy[r] > 0
       /\ UpToDate(r)
       /\ ~Called(r, "push")
       /\ reactionLog[r] = <<"eyes", "rocket">>
       /\ remoteFeat = lease[r]

\* A request that passed the gate with the branch behind, obtained a token
\* and started the rebase operation, and none of whose calls failed, a push
\* rejected by the lease check and the fail-closed commit lookup aside.
BehindAndUnfailed(r) ==
    /\ behindBy[r] > 0
    /\ CalledWith(r, "rebase", "", TRUE)
    /\ ~CalledWith(r, "push", "other", FALSE)
    /\ \A i \in 1..Len(trace[r]) :
          trace[r][i].op \notin {"push", "listCommits"} => trace[r][i].ok

\* C15 as stated: every request with the branch behind, no conflict and no
\* failing call ended with the remote feature ref updated by its push and
\* the eyes reaction deleted exactly once.
C15_UpdatedAndDeletedOnce ==
    \A r \in Reqs :
       (pc[r] = "done" /\ BehindAndUnfailed(r)) =>
          /\ CalledWith(r, "push", "accepted", TRUE)
          /\ CallCount(r, "deleteReaction") = 1
          /\ "eyes" \notin reactions[r]

\* C15 amended: an accepted push sets the remote feature ref to the rebased
\* branch (the cloned commits replayed onto the cloned base); every request
\* with the branch behind, no conflict and no failing call deleted the eyes
\* reaction exactly once and had its push accepted, unless the native
\* rebase found the branch up to date or the lease check rejected the push.
C15_UpdatedUnlessUpToDateOrChanged ==
    [][\A r \in Reqs :
          /\ (pc[r] = "pushUpdate" /\ pc'[r] = "rm" /\ LastCall(r)'.ok) =>
                /\ remoteFeat' = localFeat[r]
                /\ remoteFeat'.fork = localBase[r]
                /\ Len(remoteFeat'.commits) = Len(lease[r].commits)
                /\ remoteFeat' # remoteFeat
          /\ (pc[r] # "done" /\ pc'[r] = "done" /\ BehindAndUnfailed(r)') =>
                /\ CallCount(r, "deleteReaction")' = 1
                /\ "eyes" \notin reactions'[r]
                /\ \/ CalledWith(r, "push", "accepted", TRUE)'
                   \/ UpToDate(r)'
                   \/ CalledWith(r, "push", "stale info", FALSE)'
                   \/ CalledWith(r, "push", "is at but expected", FALSE)'
                /\ (CalledWith(r, "push", "accepted", TRUE)' \/ UpToDate(r)') <=>
                      "rocket" \in reactions'[r]]_vars

\* C15 witness: a request with the branch behind rebased it, its push was
\* accepted and set the remote ref, and the eyes reaction was deleted once.
C15_Witness ==
    \E r \in Reqs :
       /\ pc[r] = "done"
       /\ BehindAndUnfailed(r)
       /\ CalledWith(r, "push", "accepted", TRUE)
       /\ remoteFeat = localFeat[r]
       /\ remoteFeat.fork = remoteBase
       /\ CallCount(r, "deleteReaction") = 1
       /\ reactions[r] = {"rocket"}

\* C16: when the native rebase stopped with a conflict at the Nth commit of
\* the feature branch, the CodeConflictError of the request carries the SHA
\* of that commit, which is the SHA of no other commit of the branch.
C16_ConflictAttribution ==
    \A r \in Reqs :
       err[r].kind = "conflict" =>
          LET cs == localFeat[r].commits
              n == stoppedAt[r]
          IN /\ n \in 1..Len(cs)
             /\ CalledWith(r, "rebase", "CONFLICT", FALSE)
             /\ err[r] = CodeConflictError(Sha(cs[n].id))
             /\ \A m \in 1..Len(cs) :
                   m # n => err[r].commitSha # Sha(cs[m].id)

\* C16 witness: a branch of three commits conflicted at its second commit
\* and the error carries that commit's SHA.
C16_Witness ==
    \E r \in Reqs :
       /\ err[r].kind = "conflict"
       /\ Len(localFeat[r].commits) = 3
       /\ stoppedAt[r] = 2
       /\ err[r].commitSha = Sha(localFeat[r].commits[2].id)

RebaseOps ==
    {"auth", "listCommits", "rebase", "mkdtemp", "simpleGit", "clone",
     "checkout", "revparse", "push", "rm"}

\* C17: after pulls.get or the compare call of a request failed, the request
\* never starts the rebase operation (no token, no directory, no clone,
\* rebase or push), posts no rocket reaction and no comment, and ends with
\* the confused reaction posted and the eyes reaction deleted, unless the
\* call posting or deleting the reaction itself failed.
C17_HostReadFailure ==
    \A r \in Reqs :
       (Failed(r, "pulls.get") \/ Failed(r, "compareCommitsWithBasehead")) =>
          /\ pc[r] \in {"confusedFail", "finally", "done"}
          /\ err[r] = HttpError
          /\ \A op \in RebaseOps \cup {"createComment"} : ~Called(r, op)
          /\ workingDir[r] = NoDir
          /\ "rocket" \notin reactions[r]
          /\ pc[r] = "done" =>
                /\ CallCount(r, "deleteReaction") = 1
                /\ ~CalledWith(r, "createReaction", "confused", FALSE) =>
                      reactionLog[r] = <<"eyes", "confused">>
                /\ ~Failed(r, "deleteReaction") => "eyes" \notin reactions[r]

\* C17 witness: the compare call failed and the request ended with only the
\* confused reaction on the comment.
C17_Witness ==
    \E r \in Reqs :
       /\ pc[r] = "done"
       /\ Returned(r, "pulls.get")
       /\ Failed(r, "compareCommitsWithBasehead")
       /\ reactions[r] = {"confused"}
       /\ fs = {}

\* The calls of a request with the given operation and an outcome in args.
CallCountWith(r, op, args) ==
    Cardinality({i \in 1..Len(trace[r]) :
                    trace[r][i].op = op /\ trace[r][i].arg \in args})

GitRebaseOutcomes == {"up to date", "rebased", "CONFLICT", "other"}

\* C18: within one request the rebase operation is invoked at most once, and
\* the directory creation, the clone, the checkout, the native rebase and
\* the push are each attempted at most once, whatever failed.
C18_NoRetry ==
    \A r \in Reqs :
       /\ CallCountWith(r, "rebase", {""}) <= 1
       /\ CallCountWith(r, "rebase", GitRebaseOutcomes) <= 1
       /\ \A op \in {"auth", "listCommits", "mkdtemp", "simpleGit", "clone",
                     "checkout", "revparse", "push", "rm"} :
             CallCount(r, op) <= 1

\* C18 witness: a request whose push was rejected by the lease check ended
\* after one clone, one native rebase and one push.
C18_Witness ==
    \E r \in Reqs :
       /\ pc[r] = "done"
       /\ err[r] = RemoteChangedError
       /\ remoteFeat # lease[r]
       /\ CallCountWith(r, "rebase", {""}) = 1
       /\ CallCount(r, "clone") = 1
       /\ CallCountWith(r, "rebase", GitRebaseOutcomes) = 1
       /\ CallCount(r, "push") = 1

\* C19: no step of a request changes the remote base ref, and a step of a
\* request changes the remote feature ref only as the update of its push,
\* taken when that ref still has the value the request cloned.
C19_OnlyFeatureRefWritten ==
    [][\A r \in Reqs :
          pc'[r] # pc[r] =>
             /\ remoteBase' = remoteBase
             /\ remoteFeat' # remoteFeat =>
                   /\ pc[r] = "pushUpdate"
                   /\ LastCall(r)' = [op |-> "push", arg |-> "accepted",
                                      ok |-> TRUE]
                   /\ remoteFeat = lease[r]
                   /\ remoteFeat' = localFeat[r]]_vars

\* C19 witness: a request ended after its push was accepted; the feature
\* ref is the branch it pushed and the base ref is the one it cloned.
C19_Witness ==
    \E r \in Reqs :
       /\ pc[r] = "done"
       /\ CalledWith(r, "push", "accepted", TRUE)
       /\ actorPushes = 0
       /\ remoteFeat = localFeat[r]
       /\ remoteFeat # lease[r]
       /\ remoteBase = localBase[r]

\* A request holds its working directory from mkdtemp until run's finally
\* block has run.
Holds(r) ==
    pc[r] \in {"simpleGit", "clone", "checkout", "doRebase", "revparse",
               "pushCheck", "pushUpdate", "rm"}

\* C20: two requests that hold a working directory at the same time hold
\* different ones, a directory a request holds exists until that request
\* removes it, and the removal by a request removes its own directory only.
C20_WorkspaceNotShared ==
    [][/\ \A r1, r2 \in Reqs :
             (r1 # r2 /\ Holds(r1)' /\ Holds(r2)') =>
                workingDir'[r1] # workingDir'[r2]
       /\ \A r \in Reqs :
             /\ Holds(r)' => workingDir'[r] \in fs'
             /\ (pc[r] = "rm" /\ pc'[r] # pc[r]) =>
                   /\ fs \ fs' \subseteq {workingDir[r]}
                   /\ fs' \subseteq fs
       /\ (\A r \in Reqs : pc[r] = "rm" => pc'[r] = pc[r]) =>
             fs \subseteq fs']_vars

\* C20 witness: both requests hold a working directory at the same time.
C20_Witness ==
    /\ \A r \in Reqs : Holds(r) /\ workingDir[r] \in fs
    /\ workingDir[1] # workingDir[2]

\* C21: every compare call made while the feature branch is even with its
\* base yields behind_by = 0 and leads to the not-needed exit, for the first
\* request and for the second alike; a request that took this exit never
\* obtains a token, creates a directory, clones or pushes, and none of its
\* steps changes a remote ref or the file system.
C21_GateIdempotent ==
    [][\A r \in Reqs :
          /\ (/\ pc[r] = "compare" /\ pc'[r] # pc[r]
              /\ LastCall(r)'.ok
              /\ remoteFeat.fork = remoteBase) =>
                /\ behindBy'[r] = 0
                /\ pc'[r] = "confusedNotNeeded"
          /\ (Returned(r, "compareCommitsWithBasehead")' /\ behindBy'[r] = 0) =>
                /\ pc'[r] \in {"confusedNotNeeded", "confusedFail", "finally",
                               "done"}
                /\ \A op \in RebaseOps : ~Called(r, op)'
                /\ workingDir'[r] = NoDir
                /\ pc'[r] # pc[r] => UNCHANGED <<remoteFeat, remoteBase, fs>>]_vars

\* C21 witness: both requests ran the gate on the even branch and both ended
\* with the not-needed marker, no directory and no push.
C21_Witness ==
    /\ remoteFeat.fork = remoteBase
    /\ fs = {}
    /\ \A r \in Reqs :
          /\ pc[r] = "done"
          /\ Returned(r, "compareCommitsWithBasehead")
          /\ behindBy[r] = 0
          /\ reactionLog[r] = <<"eyes", "confused">>
          /\ ~Called(r, "push")

\* Scenario A as a request cloned it: the base has two commits, the feature
\* branch left it after the first and has one commit of its own.
ScenarioA(r) ==
    /\ localBase[r] = 2
    /\ lease[r].fork = 1
    /\ Len(lease[r].commits) = 1

\* The number of commits on a branch.
BranchLength(b) == b.fork + Len(b.commits)

\* C22: an accepted push publishes a feature branch made of all the commits
\* of the cloned base followed by the cloned feature commits, replayed one
\* for one in their order, and leaves the base ref alone; in scenario A the
\* published branch has exactly 3 commits.
C22_ScenarioA ==
    [][\A r \in Reqs :
          (pc[r] = "pushUpdate" /\ pc'[r] = "rm" /\ LastCall(r)'.ok) =>
             LET n == Len(lease[r].commits) IN
             /\ remoteFeat'.fork = localBase[r]
             /\ Len(remoteFeat'.commits) = n
             /\ \A i \in 1..n :
                   remoteFeat'.commits[i].id % 100 = lease[r].commits[i].id % 100
             /\ remoteBase' = remoteBase
             /\ remoteBase = localBase[r]
             /\ ScenarioA(r) => BranchLength(remoteFeat') = 3]_vars

\* C22 witness: scenario A was rebased and pushed; the remote feature branch
\* has 3 commits and the base still has 2.
C22_Witness ==
    \E r \in Reqs :
       /\ ScenarioA(r)
       /\ CalledWith(r, "push", "accepted", TRUE)
       /\ remoteFeat = localFeat[r]
       /\ BranchLength(remoteFeat) = 3
       /\ remoteFeat.fork = 2
       /\ remoteBase = 2

\* The commit lookup of a request returned.
LookupReturned(r) == CalledWith(r, "listCommits", "", TRUE)

AllValid(commits) ==
    \A i \in 1..Len(commits) : commits[i].verification = Valid

\* C23: the git configuration a request passes to the rebase names the
\* bot as user and committer, has exactly one commit.gpgsign directive, true
\* or false, and a user.signingkey directive iff commit.gpgsign is true;
\* when the lookup returned, every commit of the pull request is verified
\* with reason valid and a key id is configured, it has commit.gpgsign=true
\* and user.signingkey=<key id>.
C23_GitConfig ==
    \A r \in Reqs :
       CalledWith(r, "rebase", "", TRUE) =>
          LET g == gitConfig[r] IN
          /\ HasDirective(g, "user.name", CommitterName)
          /\ HasDirective(g, "user.email", CommitterEmail)
          /\ HasDirective(g, "committer.name", CommitterName)
          /\ HasDirective(g, "committer.email", CommitterEmail)
          /\ Cardinality({i \in 1..Len(g) : g[i].key = "commit.gpgsign"}) = 1
          /\ \/ HasDirective(g, "commit.gpgsign", "true")
             \/ HasDirective(g, "commit.gpgsign", "false")
          /\ HasKey(g, "user.signingkey") <=>
                HasDirective(g, "commit.gpgsign", "true")
          /\ (LookupReturned(r) /\ AllValid(lookedUp[r]) /\ envKeyId # "") =>
                /\ HasDirective(g, "commit.gpgsign", "true")
                /\ HasDirective(g, "user.signingkey", envKeyId)

\* C23 witness: a pull request of verified commits with a key configured
\* got a signing configuration.
C23_Witness ==
    \E r \in Reqs :
       /\ LookupReturned(r)
       /\ Len(lookedUp[r]) > 1
       /\ AllValid(lookedUp[r])
       /\ envKeyId # ""
       /\ HasDirective(gitConfig[r], "commit.gpgsign", "true")
       /\ HasDirective(gitConfig[r], "user.signingkey", envKeyId)
       /\ Len(gitConfig[r]) = 6

\* A call of the request inside run's try block was cut short: the clone,
\* the checkout, the native rebase (or its revparse) or the push rejected.
AbortedInWorkspace(r) ==
    \E i \in 1..Len(trace[r]) :
       /\ ~trace[r][i].ok
       /\ \/ trace[r][i].op \in {"clone", "checkout", "revparse", "push"}
          \/ trace[r][i].op = "rebase" /\ trace[r][i].arg \in GitRebaseOutcomes

\* C24: after a call inside run's try block was cut short, the request is
\* about to remove its working directory or has called the removal, the
\* removal names the directory the request created, and once the removal
\* returned the directory does not exist.
C24_ReleaseAfterAbort ==
    \A r \in Reqs :
       AbortedInWorkspace(r) =>
          /\ workingDir[r] \in WorkDirs
          /\ pc[r] \in {"revparse", "rm"} \/ Called(r, "rm")
          /\ pc[r] \in {"revparse", "rm"} => workingDir[r] \in fs
          /\ \A i \in 1..Len(trace[r]) :
                trace[r][i].op = "rm" => trace[r][i].arg = workingDir[r]
          /\ Returned(r, "rm") => workingDir[r] \notin fs

\* C24 witness: the clone of a request was cut short and its directory was
\* removed.
C24_Witness ==
    \E r \in Reqs :
       /\ Failed(r, "clone")
       /\ Returned(r, "rm")
       /\ workingDir[r] \in WorkDirs
       /\ workingDir[r] \notin fs

IsTerminalReaction(call) ==
    call.op = "createReaction" /\ call.arg \in {"rocket", "confused"}

\* C25: the first call of a request creates the eyes reaction, which is
\* created once only, so every other host API call comes after it; the
\* deletion of the eyes reaction is the last call of the request and is
\* preceded by the call that posts the terminal reaction.
C25_ReactionOrder ==
    \A r \in Reqs :
       /\ trace[r] # <<>> =>
             trace[r][1].op = "createReaction" /\ trace[r][1].arg = "eyes"
       /\ CallCountWith(r, "createReaction", {"eyes"}) <= 1
       /\ \A i \in 1..Len(trace[r]) :
             trace[r][i].op = "deleteReaction" =>
                /\ i = Len(trace[r])
                /\ pc[r] = "done"
                /\ \E j \in 1..(i - 1) : IsTerminalReaction(trace[r][j])

\* The steps of the pipeline in their order; the native rebase is told from
\* the handler's call of the rebase operation by its recorded outcome.
Pipeline ==
    <<"listCommits", "mkdtemp", "clone", "checkout", "git.rebase", "push">>

StepOf(call) ==
    IF call.op = "rebase" /\ call.arg \in GitRebaseOutcomes
    THEN "git.rebase" ELSE call.op

PipelinePos(step) == CHOOSE k \in 1..Len(Pipeline) : Pipeline[k] = step

IsPipelineStep(call) ==
    \E k \in 1..Len(Pipeline) : Pipeline[k] = StepOf(call)

\* The clone, the checkout or the native rebase of the request failed.
FailedBeforePush(r) ==
    \E i \in 1..Len(trace[r]) :
       /\ ~trace[r][i].ok
       /\ StepOf(trace[r][i]) \in {"clone", "checkout", "git.rebase", "revparse"}

PipelineOrdered(r) ==
    /\ \A i, j \in 1..Len(trace[r]) :
          (i < j /\ IsPipelineStep(trace[r][i]) /\ IsPipelineStep(trace[r][j])) =>
             PipelinePos(StepOf(trace[r][i])) < PipelinePos(StepOf(trace[r][j]))
    /\ Called(r, "mkdtemp") => Called(r, "listCommits")
    /\ Called(r, "clone") => Returned(r, "mkdtemp")
    /\ Called(r, "checkout") => Returned(r, "clone")
    /\ (\E i \in 1..Len(trace[r]) : StepOf(trace[r][i]) = "git.rebase") =>
          Returned(r, "checkout")
    /\ (Called(r, "push") \/ pc[r] \in {"pushCheck", "pushUpdate"}) =>
          CalledWith(r, "rebase", "rebased", TRUE)
    /\ FailedBeforePush(r) =>
          ~Called(r, "push") /\ pc[r] \notin {"pushCheck", "pushUpdate"}

\* C26: the calls of a request follow the pipeline order (commit lookup,
\* directory, clone, checkout, native rebase, push), each step after the
\* previous one returned; a push is attempted only after the native rebase
\* returned having replayed the branch; after a conflict or a failed clone,
\* checkout or rebase the request attempts no push and none of its steps
\* changes the remote feature ref.
C26_PipelineOrder ==
    [][\A r \in Reqs :
          /\ PipelineOrdered(r)'
          /\ (FailedBeforePush(r)' /\ pc'[r] # pc[r]) =>
                remoteFeat' = remoteFeat]_vars

\* C26 witness: a request went through the whole pipeline, in order, and
\* its push was accepted.
C26_Witness ==
    \E r \in Reqs :
       /\ pc[r] = "done"
       /\ \E i \in 1..Len(trace[r]) :
             /\ i + 7 <= Len(trace[r])
             /\ Ops(r)[i] = "listCommits"
             /\ Ops(r)[i + 2] = "mkdtemp"
             /\ Ops(r)[i + 4] = "clone"
             /\ Ops(r)[i + 5] = "checkout"
             /\ trace[r][i + 6] = [op |-> "rebase", arg |-> "rebased", ok |-> TRUE]
             /\ trace[r][i + 7] = [op |-> "push", arg |-> "accepted", ok |-> TRUE]

\* C27: every handled request that reached the end of the handler logged
\* its total duration.
C27_DurationLogged ==
    \A r \in Reqs :
       pc[r] = "done" => durationLogged[r]

\* C28: whenever the native rebase of a request replayed the branch with
\* commit.gpgsign=true, every commit the request cloned is verified with
\* reason valid.  (Requests whose lookup saw more commits than one page
\* holds are left out, so that a violation is one of timing.)
C28_SignedOnlyVerified ==
    \A r \in Reqs :
       (/\ CalledWith(r, "rebase", "rebased", TRUE)
        /\ HasDirective(gitConfig[r], "commit.gpgsign", "true")
        /\ Len(lookedUp[r]) <= PerPage) =>
          AllValid(lease[r].commits)

PushAccepted(r) == CalledWith(r, "push", "accepted", TRUE)

PushRejected(r) ==
    \/ CalledWith(r, "push", "stale info", FALSE)
    \/ CalledWith(r, "push", "is at but expected", FALSE)

\* Two different requests that cloned the feature branch at the same head.
SameHead(r1, r2) ==
    /\ r1 # r2
    /\ Returned(r1, "clone") /\ Returned(r2, "clone")
    /\ lease[r1] = lease[r2]

PushUpToDate(r) == CalledWith(r, "push", "up to date", TRUE)

PushSucceeded(r) == PushAccepted(r) \/ PushUpToDate(r)

RocketCalled(r) ==
    \/ CalledWith(r, "createReaction", "rocket", TRUE)
    \/ CalledWith(r, "createReaction", "rocket", FALSE)

\* C30: the rocket reaction is posted, or its posting attempted, only by a
\* request whose rebase operation returned without error: its push
\* succeeded or its native rebase found the branch up to date, its working
\* directory was removed, and no directory creation, clone, checkout,
\* rebase, push or removal of it failed; a request that has the rocket
\* reaction has no error.
C30_RocketOnlyOnSuccess ==
    \A r \in Reqs :
       RocketCalled(r) =>
          /\ PushSucceeded(r) \/ UpToDate(r)
          /\ Returned(r, "rm")
          /\ ~AbortedInWorkspace(r)
          /\ ~PushRejected(r)
          /\ \A op \in {"mkdtemp", "simpleGit", "rm", "auth"} : ~Failed(r, op)
          /\ "rocket" \in reactions[r] =>
                err[r] = NoError /\ "confused" \notin reactions[r]

\* C30 witness: two requests ended with the rocket reaction, one after its
\* push was accepted, the other after its push found the remote ref at the
\* same rebased branch.
C30_Witness ==
    \E r1, r2 \in Reqs :
       /\ pc[r1] = "done" /\ pc[r2] = "done"
       /\ PushAccepted(r1) /\ PushUpToDate(r2)
       /\ reactions[r1] = {"rocket"}
       /\ reactions[r2] = {"rocket"}
       /\ err[r1] = NoError /\ err[r2] = NoError

\* The auth call of request r returned something that holds no token string.
NoToken(r) == CalledWith(r, "auth", "no token", TRUE)

\* C31: a request whose installation token could not be retrieved makes no
\* verification lookup, creates no directory, does not clone, check out,
\* rebase or push, creates no comment and no rocket reaction; the reactions it
\* creates are eyes then at most one confused; once it has ended it has tried
\* to delete the eyes reaction exactly once; and when none of its calls
\* failed its calls are exactly eyes, get, compare, auth, confused, delete,
\* leaving the confused reaction alone on the comment.
C31_NoToken ==
    \A r \in Reqs :
       NoToken(r) =>
          /\ pc[r] \in {"confusedNoToken", "confusedFail", "finally", "done"}
          /\ \A op \in (RebaseOps \ {"auth"}) \cup {"createComment"} :
                ~Called(r, op)
          /\ workingDir[r] = NoDir
          /\ reactionLog[r] \in {<<"eyes">>, <<"eyes", "confused">>}
          /\ pc[r] = "done" =>
                /\ CallCount(r, "deleteReaction") = 1
                /\ ~Failed(r, "deleteReaction") => "eyes" \notin reactions[r]
                /\ (\A i \in 1..Len(trace[r]) : trace[r][i].ok) =>
                      /\ Ops(r) = <<"createReaction", "pulls.get",
                                    "compareCommitsWithBasehead", "auth",
                                    "createReaction", "deleteReaction">>
                      /\ reactionLog[r] = <<"eyes", "confused">>
                      /\ reactions[r] = {"confused"}

\* C31 witness: a request without a token ended with the confused reaction
\* alone on the comment and no directory made.
C31_Witness ==
    \E r \in Reqs :
       /\ pc[r] = "done"
       /\ NoToken(r)
       /\ behindBy[r] > 0
       /\ reactions[r] = {"confused"}
       /\ CallCount(r, "createReaction") = 2
       /\ fs = {}

\* The calls of request r that created the eyes reaction and got its id, and
\* those that failed to.
EyesCreated(r) == CalledWith(r, "createReaction", "eyes", TRUE)
EyesFailed(r) == CalledWith(r, "createReaction", "eyes", FALSE)

\* C32: a request tries to delete the eyes reaction only if creating it
\* returned an id, and a request that got the id and has ended has tried to
\* delete it exactly once.  A request whose eyes creation failed holds no id,
\* never fetches the pull request, compares, retrieves a token, looks up
\* verification, clones, rebases, pushes, comments or deletes a reaction; its
\* second and last call posts the confused reaction, which is then the only
\* reaction on the comment unless that call failed too.
C32_DeleteIffCreated ==
    \A r \in Reqs :
       /\ Called(r, "deleteReaction") => EyesCreated(r)
       /\ (pc[r] = "done" /\ EyesCreated(r)) =>
             CallCount(r, "deleteReaction") = 1
       /\ EyesCreated(r) <=> eyesReactionId[r] # 0
       /\ EyesFailed(r) =>
             /\ pc[r] \in {"confusedFail", "finally", "done"}
             /\ \A op \in RebaseOps \cup {"pulls.get", "createComment",
                                          "compareCommitsWithBasehead",
                                          "deleteReaction"} : ~Called(r, op)
             /\ workingDir[r] = NoDir
             /\ pc[r] = "done" =>
                   /\ Len(trace[r]) = 2
                   /\ trace[r][2].op = "createReaction"
                   /\ trace[r][2].arg = "confused"
                   /\ trace[r][2].ok => reactions[r] = {"confused"}

\* C32 witness: the eyes creation failed and the request ended with the
\* confused reaction posted and nothing deleted.
C32_Witness ==
    \E r \in Reqs :
       /\ pc[r] = "done"
       /\ EyesFailed(r)
       /\ reactions[r] = {"confused"}
       /\ ~Called(r, "deleteReaction")

\* The calls that give the user the result of the request.
IsFeedback(call) == IsTerminalReaction(call) \/ call.op = "createComment"

\* Request r makes a feedback call in this step.
GivesFeedback(r) ==
    /\ Len(trace'[r]) = Len(trace[r]) + 1
    /\ IsFeedback(trace'[r][Len(trace'[r])])

\* C33: whenever a request posts a rocket or confused reaction or creates
\* the conflict comment, the temporary directory it made, if any, no longer
\* exists.
C33_ReleaseBeforeFeedback ==
    [][\A r \in Reqs : GivesFeedback(r) => workingDir[r] \notin fs]_vars

\* Request r makes the call op in this step, with the given outcome.
CallMade(r, op) ==
    /\ Len(trace'[r]) = Len(trace[r]) + 1
    /\ trace'[r][Len(trace'[r])].op = op
Outcome(r) == trace'[r][Len(trace'[r])]

\* C34: the value the push is compared with is the remote feature branch as
\* the clone found it, whatever it was when the request was triggered: the
\* clone sets the remote-tracking ref and the base to the remote's refs of
\* that moment, the checkout takes that head and the rebase replays its
\* commits; a push made while the remote ref still equals the cloned value
\* is never rejected for a changed remote and raises no RemoteChangedError;
\* and an accepted push sets the remote ref to the rebased branch.
C34_LeaseFromClone ==
    [][\A r \in Reqs :
          /\ (CallMade(r, "clone") /\ Outcome(r).ok) =>
                lease'[r] = remoteFeat /\ localBase'[r] = remoteBase
          /\ (CallMade(r, "checkout") /\ Outcome(r).ok) =>
                localFeat'[r] = lease[r]
          /\ (CallMade(r, "rebase") /\ Outcome(r).arg = "rebased") =>
                localFeat'[r] =
                   Branch(localBase[r],
                          Replay(lease[r].commits, localBase[r], gitConfig[r]))
          /\ CallMade(r, "push") =>
                /\ remoteFeat = lease[r] =>
                      /\ Outcome(r).arg \in {"accepted", "other"}
                      /\ err'[r].kind # "remoteChanged"
                /\ Outcome(r).arg = "accepted" => remoteFeat' = localFeat[r]
      ]_vars

\* C34 witness: another actor added a commit after the lookup and before the
\* clone; the request rebased the three commits it cloned, its push was
\* accepted and it ended with the rocket reaction.
C34_Witness ==
    \E r \in Reqs :
       /\ pc[r] = "done"
       /\ actorPushes = 1
       /\ Len(lookedUp[r]) = 2
       /\ Len(lease[r].commits) = 3
       /\ SubSeq(lease[r].commits, 1, 2) = lookedUp[r]
       /\ PushAccepted(r)
       /\ remoteFeat = localFeat[r]
       /\ Len(remoteFeat.commits) = 3
       /\ reactions[r] = {"rocket"}
       /\ err[r] = NoError

\* C35: the classifier answers true only if every commit of the pull
\* request, on whatever page of the list it is, is verified with reason
\* 'valid'.
C35_EveryCommitConsidered ==
    (vresult.done /\ vresult.value) =>
       \A i \in 1..Len(vcommits) :
          /\ vcommits[i].verification.verified = TRUE
          /\ vcommits[i].verification.reason = "valid"

\* The host-API rebase has returned to its caller or thrown.
ApiEnded == apiPc \in {"returned", "thrown"}

\* C36: once the host-API rebase has returned or thrown, the temporary
\* branch does not exist, it has returned only if no step failed, and the
\* exception it has thrown is the one the failing step raised.
C36_TempBranchDeleted ==
    ApiEnded =>
       /\ refs.temp = NoRef
       /\ apiPc = "returned" => raised = NoApiError
       /\ apiPc = "thrown" => apiErr = raised

\* The rebased commits made so far, in order.
IsRebased(object) == object.message = "original"
Rebased == SelectSeq(objects, IsRebased)
HeadOfPull == PullSha(Len(pullCommits))

\* C37: the head branch ref changes only in a step before which every
\* commit of the pull request has been cherry-picked, in order, and then to
\* the last rebased commit; when a cherry-pick fails on a merge conflict the
\* exception carries the SHA of the commit being picked, and after a merge
\* conflict or a refused merge commit the head branch ref is what it was.
C37_HeadMovedAfterAllPicks ==
    [][/\ refs'.feature # refs.feature =>
             /\ [i \in 1..Len(Rebased) |-> Rebased[i].of] =
                   [i \in 1..Len(pullCommits) |-> pullCommits[i].sha]
             /\ refs.temp = Rebased[Len(Rebased)].sha
             /\ refs'.feature = Rebased[Len(Rebased)].sha
       /\ raised'.kind = "conflict" => raised'.commitSha = Picked.sha
       /\ raised'.call \in {"merge", "cherryPickCommit"} =>
             refs'.feature = HeadOfPull
      ]_vars

\* C38: the first rebased commit has the fetched head commit of the base
\* branch as its only parent, and every later rebased commit has the
\* rebased commit before it as its only parent.
C38_RebasedParents ==
    \A j \in 1..Len(Rebased) :
       Rebased[j].parents =
          << IF j = 1 THEN baseCommit.sha ELSE Rebased[j - 1].sha >>

====
